---- MODULE Spec2Model ----
(***************************************************************************)
(* Bridge transaction ledger (BridgeStorageService), state reconciler      *)
(* (BridgeStateService) and the monitor hook (useBridgeStateMonitor) of    *)
(* juicerkle-ui.  One step of the model is one JavaScript run-to-completion *)
(* segment: from the start of a handler, or the resumption after a network  *)
(* call (claims request, project-id lookup, outbox read), to the next       *)
(* network call or the end of the handler.                                  *)
(***************************************************************************)
EXTENDS Integers, Sequences, FiniteSets, TLC

(***************************************************************************)
(* Bounds                                                                   *)
(***************************************************************************)
MaxCalls == 3        \* reconciliation calls started (sweeps, forced passes, card checks)
MaxStore == 2        \* transfers the user stores
MaxLeaf == 1         \* greatest leaf index the claims backend returns
MaxTicks == 1        \* clock advances
TickMs == 60000      \* one clock advance, in ms
StartTime == 100000  \* Date.now() when the page is loaded
CacheTickMs == 15000  \* one clock advance when the outbox cache is under study, in ms
MaxCacheTicks == 3   \* such clock advances
MaxGroupTxs == 2     \* stored transactions when the request grouping is under study
MaxLen == 3          \* records of a ledger handed to removeDuplicateTransactions
MaxTs == 2           \* greatest timestamp of such a record
MaxDedupCalls == 2   \* calls of removeDuplicateTransactions in a row

(***************************************************************************)
(* Program constants                                                        *)
(***************************************************************************)
CACHE_TTL == 30000
BACKEND_CHECK_INTERVAL == 60000

SourceChain == 1
TargetChain == 10
BaseChain == 8453
Sucker == "0xsucker"
Beneficiary == "0xbeneficiary"
ZeroAddress == "0x0000000000000000000000000000000000000000"
Tokens == {"0xt1", "0xt2"}

Procs == {"p1", "p2"}  \* concurrently running checkStates / forceBackendCheck calls
Cards == {"c1"}        \* mounted transaction cards running checkTransactionState
MaxTime == StartTime + MaxTicks * TickMs

NullProof == <<>>
NullLeaf == [null |-> TRUE]

\* String.prototype.toLowerCase on the addresses of the model
toLowerCase(a) ==
  CASE a = "0xT1" -> "0xt1"
    [] a = "0xT2" -> "0xt2"
    [] a = "0xSucker" -> "0xsucker"
    [] a = "0xBeneficiary" -> "0xbeneficiary"
    [] OTHER -> a

\* parseInt on the decimal strings produced by bigint.toString()
parseInt(s) == CHOOSE n \in 0..(MaxStore + MaxLeaf + 2) : ToString(n) = s

\* order of the status values (types/bridge TransactionStatus)
Rank(s) ==
  CASE s = "initiated" -> 0
    [] s = "waiting_to_send" -> 1
    [] s = "sent_to_remote" -> 2
    [] s = "ready_to_claim" -> 3
    [] s = "claimed" -> 4

\* no discoverAllSuckers call has been made
NoDiscovery == [pc |-> "off"]

\* BridgeType
BridgeTypes == {"ArbitrumCanonical", "OptimismCanonical", "CCIP", "unknown"}

\* DEPLOYER_TO_BRIDGE_TYPE as Object.entries lists it: the deployers in
\* insertion order, named by the first digits of their addresses
DEPLOYER_TO_BRIDGE_TYPE ==
  << [deployer |-> "0x5021", type |-> "ArbitrumCanonical"],
     [deployer |-> "0x8ca8", type |-> "OptimismCanonical"],
     [deployer |-> "0x5de5", type |-> "OptimismCanonical"],
     [deployer |-> "0x34b4", type |-> "CCIP"],
     [deployer |-> "0xde90", type |-> "CCIP"],
     [deployer |-> "0x9d48", type |-> "CCIP"] >>

\* the callers of detectSuckerBridge: two effects of the page (the mount
\* effect of BridgeToRemoteButton starts two calls at once) and
\* populateBridgeInfo
DetCallers == {"u1", "u2", "populate"}

\* a caller with no detectSuckerBridge call running
IdleCall ==
  [pc |-> "idle", chainId |-> 0, suckerAddress |-> <<>>, entries |-> <<>>,
   i |-> 0, failed |-> FALSE, after |-> {}, next |-> FALSE, crossed |-> FALSE]

\* nothing has been observed of the detection service
NoDetection ==
  [op |-> "none", caller |-> "none", key |-> <<>>, type |-> "none",
   deployerAddress |-> "none", hit |-> FALSE, i |-> 0, answer |-> "none",
   failed |-> FALSE, entries |-> <<>>, after |-> {}, next |-> FALSE]

\* the detection service after module load.  world tells how the chains
\* answer the isSucker probes: "fixed" (each probe has one answer) or "any"
DetState(world) ==
  [world |-> world,
   mappings |-> DEPLOYER_TO_BRIDGE_TYPE,
   bridgeCache |-> <<>>,
   call |-> [p \in DetCallers |-> IdleCall],
   returned |-> <<>>,
   stale |-> {},
   crossedKeys |-> {},
   updated |-> <<>>,
   updates |-> 0,
   last |-> NoDetection]

\* no stateless function has been called
NoQuery == [fn |-> "none"]

\* the hooks before any component is mounted.  monitor: the effects of
\* useBridgeStateMonitor (interval = intervalRef holds a live timer, listener
\* = the storage listener is registered, timeout = a storage-change timeout
\* is pending); card: the state and the effect of useBridgeTransactionState
\* (isChecking = the state, closure = the isChecking the rendered callback
\* reads, interval = a live timer armed at armedAt, started = when the last
\* check started); last: what the last hook step did
NoHook ==
  [monitor |-> [mounted |-> FALSE, interval |-> FALSE, listener |-> FALSE,
                timeout |-> FALSE],
   card |-> [mounted |-> FALSE, transactionId |-> "", isChecking |-> FALSE,
             closure |-> FALSE, interval |-> FALSE, armedAt |-> 0, started |-> -1],
   last |-> [op |-> "none", live |-> TRUE, started |-> FALSE, since |-> -1,
             overlap |-> FALSE, cleared |-> {}]]

VARIABLES
  ledger,            \* localStorage['juicerkle-bridge-transactions'], a sequence of records
  nextId,            \* number of ids handed out (ids are unique strings in the code)
  now,               \* Date.now()
  outboxCache,       \* BridgeStateService.outboxCache: key -> {data, timestamp}
  lastBackendCheck,  \* BridgeStateService.lastBackendCheck
  isChecking,        \* useBridgeStateMonitor state isChecking
  pc,                \* per running call: "idle", "claims", "project", "outbox"
  kind,              \* per running call: "sweep" (checkStates) or "force"
  claimGroups,       \* per call: request groups still to do, head = awaited
  claimsLeft,        \* per call: claims of the current response still to do
  batchGroups,       \* per call: outbox groups still to do, head = awaited
  cardPc,            \* per card: "idle" or "outbox"
  cardTx,            \* per card: the transaction snapshot under check
  chainCount,        \* per token: leaves inserted into the source outbox
  chainSent,         \* per token: numberOfClaimsSent of the source outbox
  calls,             \* reconciliation calls started so far
  obs,               \* what the last step did (events dispatched, records created)
  disc,              \* SuckerDiscoveryService: the locals of discoverAllSuckers and the chain data
  det,               \* BridgeDetectionService: bridgeCache, DEPLOYER_TO_BRIDGE_TYPE, running calls
  query,             \* the last call of a function that keeps no state, and its result
  hook               \* useBridgeStateMonitor and useBridgeTransactionState: effects, timers, last step

storeVars == <<ledger, nextId>>
serviceVars == <<outboxCache, lastBackendCheck>>
procVars == <<isChecking, pc, kind, claimGroups, claimsLeft, batchGroups>>
cardVars == <<cardPc, cardTx>>
chainVars == <<chainCount, chainSent>>
vars == <<ledger, nextId, now, outboxCache, lastBackendCheck, isChecking, pc, kind,
          claimGroups, claimsLeft, batchGroups, cardPc, cardTx, chainCount,
          chainSent, calls, obs, disc, det, query, hook>>

(***************************************************************************)
(* BridgeStorageService                                                     *)
(***************************************************************************)
Ids(L) == {L[i].id : i \in DOMAIN L}

\* Map.set of the dedup maps: keep the entry unless the new record is newer
uniquePutOldest(m, tx, f) ==
  LET idx == {i \in DOMAIN m : m[i][f] = tx[f]}
  IN IF idx = {} THEN Append(m, tx)
     ELSE LET i == CHOOSE j \in idx : TRUE
          IN IF tx.timestamp < m[i].timestamp THEN [m EXCEPT ![i] = tx] ELSE m

uniquePut(m, tx, f) ==
  LET idx == {i \in DOMAIN m : m[i][f] = tx[f]}
  IN IF idx = {} THEN Append(m, tx)
     ELSE LET i == CHOOSE j \in idx : TRUE
          IN IF tx.timestamp > m[i].timestamp THEN [m EXCEPT ![i] = tx] ELSE m

RECURSIVE uniqueFold(_, _, _)
uniqueFold(m, txs, f) ==
  IF txs = <<>> THEN m
  ELSE uniqueFold(uniquePut(m, Head(txs), f), Tail(txs), f)

\* one pass only: by id while ids repeat, by hash otherwise
deduplicatedOnePass(L) ==
  IF Len(uniqueFold(<<>>, L, "id")) # Len(L) THEN uniqueFold(<<>>, L, "id")
  ELSE uniqueFold(<<>>, L, "transactionHash")

\* the list removeDuplicateTransactions would save
deduplicated(L) ==
  uniqueFold(<<>>, uniqueFold(<<>>, L, "id"), "transactionHash")

\* removeDuplicateTransactions: saves only when the length changed
removeDuplicateTransactions(L) ==
  LET d == deduplicated(L)
  IN IF Len(d) # Len(L) THEN d ELSE L

\* BridgeTransactionList.loadTransactions, the listener of
\* 'bridge-transactions-updated': it runs inside dispatchEvent
loadTransactions(L) == removeDuplicateTransactions(L)

\* saveTransactions: setItem, then dispatchEvent, which runs the listener
saveTransactions(L) == loadTransactions(L)

NoTx == [id |-> ""]

\* the storage state one step works on: the ledger, and what the step did
\* (event dispatched, record created, transactions evaluated against an
\* outbox snapshot, claims handled)
Store0(L) ==
  [ledger |-> L, emitted |-> FALSE, created |-> NoTx, evaluated |-> {}, claims |-> {},
   results |-> {}, threw |-> FALSE]

Saved(S, L) == [S EXCEPT !.ledger = saveTransactions(L), !.emitted = TRUE]

FindById(L, id) ==
  LET idx == {i \in DOMAIN L : L[i].id = id}
  IN IF idx = {} THEN 0 ELSE CHOOSE i \in idx : \A j \in idx : i <= j

storeBridgeTransaction(S, tx) == Saved(S, Append(S.ledger, tx))

\* the record is stamped anew when its status is written
updateTransactionStatusStamped(S, id, status) ==
  LET i == FindById(S.ledger, id)
  IN IF i = 0 THEN S
     ELSE Saved(S, [S.ledger EXCEPT ![i].status = status, ![i].timestamp = now + 1])

updateTransactionStatus(S, id, status) ==
  LET i == FindById(S.ledger, id)
  IN IF i = 0 THEN S
     ELSE Saved(S, [S.ledger EXCEPT ![i].status = status])

\* the proof is stored without the leaf
updateTransactionWithClaimDataNoLeaf(S, id, claim) ==
  LET i == FindById(S.ledger, id)
  IN IF i = 0 THEN S
     ELSE Saved(S, [S.ledger EXCEPT ![i].claimProof = claim.Proof,
                                    ![i].status = "ready_to_claim"])

updateTransactionWithClaimData(S, id, claim) ==
  LET i == FindById(S.ledger, id)
  IN IF i = 0 THEN S
     ELSE Saved(S, [S.ledger EXCEPT ![i].claimProof = claim.Proof,
                                    ![i].claimLeaf = claim.Leaf,
                                    ![i].status = "ready_to_claim"])

generateTransactionId(n) == "bridge-" \o ToString(n)

createTransactionFromClaimData(S, claim, chainId, suckerAddress, projectId, id, t) ==
  LET tx == [id |-> id,
             transactionHash |-> "",
             projectId |-> projectId,
             sourceChainId |-> 0,
             targetChainId |-> chainId,
             suckerAddress |-> suckerAddress,
             beneficiary |-> claim.Leaf.Beneficiary,
             token |-> claim.Token,
             projectTokenCount |-> claim.Leaf.ProjectTokenCount,
             terminalTokenAmount |-> claim.Leaf.TerminalTokenAmount,
             minTokensReclaimed |-> "0",
             hashed |-> "",
             index |-> claim.Leaf.Index,
             root |-> "",
             caller |-> ZeroAddress,
             claimProof |-> claim.Proof,
             claimLeaf |-> claim.Leaf,
             timestamp |-> t,
             status |-> "ready_to_claim"]
  IN [Saved(S, Append(S.ledger, tx)) EXCEPT !.created = tx]

getTransactionsReadyToClaim(L) ==
  SelectSeq(L, LAMBDA tx : /\ tx.status = "ready_to_claim"
                           /\ tx.claimProof # NullProof
                           /\ tx.claimLeaf # NullLeaf)

getTransactionsNeedingClaimData(L) ==
  SelectSeq(L, LAMBDA tx : tx.status = "sent_to_remote" /\ tx.claimProof = NullProof)

ClaimKeyExact(tx) == <<tx.targetChainId, tx.suckerAddress, tx.token, tx.beneficiary>>

ClaimKey(tx) ==
  <<tx.targetChainId, toLowerCase(tx.suckerAddress), toLowerCase(tx.token),
    toLowerCase(tx.beneficiary)>>

\* Map insertion of the grouping loops: append to the group of the key, or
\* open a new group at the end
RECURSIVE groupIntoEach(_, _, _)
groupIntoEach(groups, txs, f) ==
  IF txs = <<>> THEN groups
  ELSE LET tx == Head(txs)
       IN groupIntoEach(Append(groups,
            [key |-> IF f = "claims"
                     THEN <<tx.targetChainId, toLowerCase(tx.suckerAddress),
                            toLowerCase(tx.token), toLowerCase(tx.beneficiary)>>
                     ELSE <<tx.sourceChainId, tx.suckerAddress, tx.token>>,
             transactions |-> <<tx>>,
             request |-> [chainId |-> tx.targetChainId,
                          sucker |-> tx.suckerAddress,
                          token |-> tx.token,
                          beneficiary |-> tx.beneficiary]]), Tail(txs), f)

RECURSIVE groupInto(_, _, _)
groupInto(groups, txs, f) ==
  IF txs = <<>> THEN groups
  ELSE LET tx == Head(txs)
           k == IF f = "claims" THEN ClaimKey(tx)
                ELSE <<tx.sourceChainId, tx.suckerAddress, tx.token>>
           idx == {i \in DOMAIN groups : groups[i].key = k}
           g2 == IF idx = {}
                 THEN Append(groups,
                        [key |-> k,
                         transactions |-> <<tx>>,
                         request |-> [chainId |-> tx.targetChainId,
                                      sucker |-> tx.suckerAddress,
                                      token |-> tx.token,
                                      beneficiary |-> tx.beneficiary]])
                 ELSE LET i == CHOOSE j \in idx : TRUE
                      IN [groups EXCEPT ![i].transactions = Append(@, tx)]
       IN groupInto(g2, Tail(txs), f)

getTransactionsForClaimsRequest(L) ==
  groupInto(<<>>, getTransactionsNeedingClaimData(L), "claims")

(***************************************************************************)
(* BridgeStateService.  M is the state one step works on: the storage      *)
(* state S, the service fields and the locals of the running call.         *)
(***************************************************************************)
BatchKey(tx) == <<tx.sourceChainId, tx.suckerAddress, tx.token>>

\* getCachedOutboxTree, line 34: the cached entry is still fresh
cacheFreshInclusive(cache, k, t) ==
  k \in DOMAIN cache /\ (t - cache[k].timestamp) <= CACHE_TTL

cacheFresh(cache, k, t) ==
  k \in DOMAIN cache /\ (t - cache[k].timestamp) < CACHE_TTL

cacheSet(cache, k, data, t) ==
  [x \in DOMAIN cache \cup {k} |->
     IF x = k THEN [data |-> data, timestamp |-> t] ELSE cache[x]]

\* lines 196-200 / 322-325: the comparison deciding sent_to_remote
indexSentInclusive(outboxIndex, numberOfClaimsSent) == outboxIndex <= numberOfClaimsSent

indexSent(outboxIndex, numberOfClaimsSent) == outboxIndex < numberOfClaimsSent

\* checkTransactionStatesBatch, lines 311-340: one transaction of a group
batchStatus(tx, n) ==
  IF tx.index # "" /\ indexSent(parseInt(tx.index), n)
  THEN "sent_to_remote" ELSE tx.status

\* checkTransactionState, lines 182-202: the status computed for a snapshot
singleStatus(tx, n) ==
  IF tx.status \in {"confirmed", "waiting_to_send"} /\ tx.index # ""
     /\ indexSent(parseInt(tx.index), n)
  THEN "sent_to_remote" ELSE tx.status

\* the BridgeStateInfo pushed for a transaction (lines 333-340, 209-216)
BridgeStateInfo(tx, currentStatus) ==
  [transactionId |-> tx.id, currentStatus |-> currentStatus,
   previousStatus |-> tx.status, statusChanged |-> (currentStatus # tx.status)]

\* lines 356-367 (218-230): the results of a group whose outbox read failed
failedResults(S, txs) ==
  [S EXCEPT !.results = @ \cup {BridgeStateInfo(txs[k], txs[k].status) : k \in DOMAIN txs}]

\* lines 204-207 / 328-331: write the status when it changed
writeAlways(S, tx, currentStatus, n) ==
  updateTransactionStatus(
    [S EXCEPT !.evaluated = @ \cup
                {[id |-> tx.id, status |-> tx.status, index |-> tx.index, n |-> n,
                  key |-> BatchKey(tx)]},
              !.results = @ \cup {BridgeStateInfo(tx, currentStatus)}],
    tx.id, currentStatus)

writeIfChanged(S, tx, currentStatus, n) ==
  LET S1 == [S EXCEPT !.evaluated = @ \cup
                        {[id |-> tx.id, status |-> tx.status, index |-> tx.index,
                          n |-> n, key |-> BatchKey(tx)]},
                      !.results = @ \cup {BridgeStateInfo(tx, currentStatus)}]
  IN IF currentStatus # tx.status
     THEN updateTransactionStatus(S1, tx.id, currentStatus) ELSE S1

RECURSIVE evalGroup(_, _, _)
evalGroup(S, txs, n) ==
  IF txs = <<>> THEN S
  ELSE evalGroup(writeIfChanged(S, Head(txs), batchStatus(Head(txs), n), n), Tail(txs), n)

\* checkStates, finally: setIsChecking(false)
finish(M) ==
  [M EXCEPT !.pc = "idle", !.knd = "none", !.bg = <<>>, !.cg = <<>>, !.cl = <<>>,
            !.chk = IF M.knd = "sweep" THEN FALSE ELSE @]

\* the loop over the groups of checkTransactionStatesBatch, up to the next
\* outbox read that has to go to the chain
RECURSIVE runBatch(_)
runBatch(M) ==
  IF M.bg = <<>> THEN finish(M)
  ELSE LET g == Head(M.bg)
           k == BatchKey(g.transactions[1])
       IN IF cacheFresh(M.cache, k, now)
          THEN runBatch([M EXCEPT !.S = evalGroup(M.S, g.transactions, M.cache[k].data),
                                  !.bg = Tail(M.bg)])
          ELSE [M EXCEPT !.pc = "outbox"]

\* checkAllTransactionStates after the backend pass, lines 240-252
startBatch(M) ==
  LET confirmed == SelectSeq(M.S.ledger, LAMBDA tx :
                     tx.status \in {"confirmed", "waiting_to_send", "sent_to_remote"})
  IN IF confirmed = <<>> THEN finish(M)
     ELSE runBatch([M EXCEPT !.bg = groupInto(<<>>, confirmed, "batch")])

afterBackend(M) == IF M.knd = "force" THEN finish(M) ELSE startBatch(M)

\* end of one iteration of the loop over the request groups
nextGroup(M) ==
  IF Tail(M.cg) = <<>> THEN afterBackend([M EXCEPT !.cg = <<>>, !.cl = <<>>])
  ELSE [M EXCEPT !.cg = Tail(M.cg), !.cl = <<>>, !.pc = "claims"]

\* lines 111-119: the first transaction of the group with the claim's index
matchClaimAny(claim, txs) == IF txs = <<>> THEN 0 ELSE 1

matchClaim(claim, txs) ==
  LET idx == {i \in DOMAIN txs : claim.Leaf.Index = txs[i].index}
  IN IF idx = {} THEN 0 ELSE CHOOSE i \in idx : \A j \in idx : i <= j

\* lines 107-154: the loop over the claims, up to the next project-id lookup
RECURSIVE runClaims(_, _)
runClaims(M, claims) ==
  IF claims = <<>> THEN nextGroup(M)
  ELSE IF Head(claims).Leaf = NullLeaf
  THEN \* claim.Leaf.Index throws a TypeError: the catch of the group
       nextGroup([M EXCEPT !.S.threw = TRUE])
  ELSE LET txs == Head(M.cg).transactions
           i == matchClaim(Head(claims), txs)
       IN IF i # 0
          THEN runClaims([M EXCEPT !.S = [updateTransactionWithClaimData(
                                            M.S, txs[i].id, Head(claims))
                                          EXCEPT !.claims = @ \cup {Head(claims)}]],
                         Tail(claims))
          ELSE [M EXCEPT !.pc = "project", !.cl = claims,
                         !.S.claims = @ \cup {Head(claims)}]

\* line 73: the rate limit of the backend pass
rateLimitedNever(t, last) == FALSE

rateLimited(t, last) == t - last < BACKEND_CHECK_INTERVAL

\* checkBackendForClaimData, lines 55-100, up to the first claims request
backendStart(M) ==
  IF rateLimited(now, M.last) THEN afterBackend(M)
  ELSE LET groups == getTransactionsForClaimsRequest(M.S.ledger)
           M1 == [M EXCEPT !.last = now]
       IN IF groups = <<>> THEN afterBackend(M1)
          ELSE [M1 EXCEPT !.pc = "claims", !.cg = groups]

(***************************************************************************)
(* Environment: the claims backend and the chains                           *)
(***************************************************************************)
RECURSIVE SetToSeq(_)
SetToSeq(S) ==
  IF S = {} THEN <<>>
  ELSE LET m == CHOOSE x \in S : \A y \in S : x <= y
       IN <<m>> \o SetToSeq(S \ {m})

\* a JBClaim the backend returns for a request
Claim(request, i) ==
  [Token |-> request.token,
   Leaf |-> [Index |-> ToString(i),
             Beneficiary |-> request.beneficiary,
             ProjectTokenCount |-> "1000",
             TerminalTokenAmount |-> "1000"],
   Proof |-> <<"0xproof" \o ToString(i)>>]

\* the responses of POST /claims: the leaves of any set of indexes
RECURSIVE ClaimsOf(_, _)
ClaimsOf(request, is) ==
  IF is = <<>> THEN <<>>
  ELSE <<Claim(request, Head(is))>> \o ClaimsOf(request, Tail(is))

\* a record of the response body without a Leaf
MalformedClaim == [Token |-> "", Leaf |-> NullLeaf, Proof |-> NullProof]

\* the response body is not checked (juicemerkleApiService line 46): any
\* list of claims, possibly followed by a malformed record
Responses(request) ==
  {ClaimsOf(request, SetToSeq(I)) : I \in SUBSET (0..MaxLeaf)} \cup
  {ClaimsOf(request, SetToSeq(I)) \o <<MalformedClaim>> : I \in SUBSET (0..MaxLeaf)}

ProjectIdOf(token) == IF token = "0xt1" THEN "1" ELSE "2"

Sum(f) == LET RECURSIVE sum(_)
              sum(D) == IF D = {} THEN 0
                        ELSE LET x == CHOOSE y \in D : TRUE IN f[x] + sum(D \ {x})
          IN sum(DOMAIN f)

NumStored == Sum(chainCount)

(***************************************************************************)
(* Steps                                                                    *)
(***************************************************************************)
M0(p) ==
  [S |-> Store0(ledger), cache |-> outboxCache, last |-> lastBackendCheck,
   pc |-> pc[p], knd |-> kind[p], cg |-> claimGroups[p], cl |-> claimsLeft[p],
   bg |-> batchGroups[p], chk |-> isChecking, nid |-> nextId]

\* steps told apart by the properties; every other step is "other"
Ops == {"checkStates", "forceBackendCheck", "clearAllTransactions", "projectFound",
        "removeDuplicateTransactions", "outboxFailed"}

Observe(op, S) ==
  [op |-> IF op \in Ops THEN op ELSE "other", emitted |-> S.emitted,
   created |-> S.created, evaluated |-> S.evaluated, claims |-> S.claims,
   results |-> S.results, threw |-> S.threw,
   input |-> IF op = "removeDuplicateTransactions" THEN ledger ELSE <<>>]

Commit(p, M, op) ==
  \E m \in {M} :
  /\ ledger' = m.S.ledger
  /\ nextId' = m.nid
  /\ outboxCache' = m.cache
  /\ lastBackendCheck' = m.last
  /\ isChecking' = m.chk
  /\ pc' = [pc EXCEPT ![p] = m.pc]
  /\ kind' = [kind EXCEPT ![p] = m.knd]
  /\ claimGroups' = [claimGroups EXCEPT ![p] = m.cg]
  /\ claimsLeft' = [claimsLeft EXCEPT ![p] = m.cl]
  /\ batchGroups' = [batchGroups EXCEPT ![p] = m.bg]
  /\ obs' = Observe(op, m.S)
  /\ disc' = disc
  /\ det' = det
  /\ query' = query

\* the isChecking the memoized checkStates closure reads: useCallback has the
\* dependencies [chainId], so the closure of the first render, in which
\* isChecking is the initial useState(false), stays in use
closureIsChecking == FALSE

\* a new call runs in the first free slot
FreeSlot(p) ==
  /\ pc[p] = "idle"
  /\ calls < MaxCalls
  /\ p = "p1" \/ pc["p1"] # "idle"

\* checkStates (interval tick, storage-change timeout, checkNow), leaving the
\* hook as h and the number of calls counted as n
StartSweepBy(p, h, n) ==
  /\ FreeSlot(p)
  /\ calls' = n
  /\ ~closureIsChecking
  /\ Commit(p, backendStart([M0(p) EXCEPT !.knd = "sweep", !.chk = TRUE]), "checkStates")
  /\ hook' = h
  /\ UNCHANGED <<now, cardVars, chainVars>>

StartSweep(p) == StartSweepBy(p, hook, calls + 1)

\* forceBackendCheck
StartForce(p) ==
  /\ FreeSlot(p)
  /\ calls' = calls + 1
  /\ Commit(p, backendStart([M0(p) EXCEPT !.knd = "force", !.last = 0]), "forceBackendCheck")
  /\ UNCHANGED <<now, cardVars, chainVars, hook>>

\* getClaimsForBeneficiary returns claims
ClaimsResponseWith(p, claims) ==
  /\ pc[p] = "claims"
  /\ Commit(p, runClaims(M0(p), claims), "claims")
  /\ UNCHANGED <<now, cardVars, chainVars, calls, hook>>

\* getClaimsForBeneficiary returns
ClaimsResponse(p) ==
  /\ pc[p] = "claims"
  /\ \E claims \in Responses(Head(claimGroups[p]).request) :
       ClaimsResponseWith(p, claims)

\* getClaimsForBeneficiary throws: the catch of the group, then the next group
ClaimsFailAbort(p) ==
  /\ pc[p] = "claims"
  /\ Commit(p, afterBackend([M0(p) EXCEPT !.S.threw = TRUE, !.cg = <<>>, !.cl = <<>>]),
            "claimsFailed")
  /\ UNCHANGED <<now, cardVars, chainVars, calls, hook>>

ClaimsFail(p) ==
  /\ pc[p] = "claims"
  /\ Commit(p, nextGroup([M0(p) EXCEPT !.S.threw = TRUE]), "claimsFailed")
  /\ UNCHANGED <<now, cardVars, chainVars, calls, hook>>

\* getProjectIdForToken returns a project id: the claim is materialized
ProjectFound(p) ==
  /\ pc[p] = "project"
  /\ LET M == M0(p)
         claim == Head(M.cl)
         request == Head(M.cg).request
         S1 == createTransactionFromClaimData(M.S, claim, request.chainId,
                 request.sucker, ProjectIdOf(claim.Token),
                 generateTransactionId(M.nid), now)
     IN Commit(p, runClaims([M EXCEPT !.S = S1, !.nid = @ + 1], Tail(M.cl)), "projectFound")
  /\ UNCHANGED <<now, cardVars, chainVars, calls, hook>>

\* getProjectIdForToken returns null or throws: the claim is skipped
ProjectMissing(p) ==
  /\ pc[p] = "project"
  /\ Commit(p, runClaims(M0(p), Tail(claimsLeft[p])), "projectMissing")
  /\ UNCHANGED <<now, cardVars, chainVars, calls, hook>>

\* suckerService.getOutboxTree returns for the awaited group
OutboxResponse(p) ==
  /\ pc[p] = "outbox"
  /\ LET M == M0(p)
         g == Head(M.bg)
         k == BatchKey(g.transactions[1])
         n == chainSent[g.transactions[1].token]
     IN Commit(p, runBatch([M EXCEPT !.cache = cacheSet(M.cache, k, n, now),
                                     !.S = evalGroup(M.S, g.transactions, n),
                                     !.bg = Tail(M.bg)]), "outbox")
  /\ UNCHANGED <<now, cardVars, chainVars, calls, hook>>

\* suckerService.getOutboxTree throws: the group is reported unchanged
OutboxFailAbort(p) ==
  /\ pc[p] = "outbox"
  /\ Commit(p, finish([M0(p) EXCEPT
                         !.S = failedResults(@, Head(batchGroups[p]).transactions)]),
            "outboxFailed")
  /\ UNCHANGED <<now, cardVars, chainVars, calls, hook>>

OutboxFail(p) ==
  /\ pc[p] = "outbox"
  /\ Commit(p, runBatch([M0(p) EXCEPT
                           !.S = failedResults(@, Head(batchGroups[p]).transactions),
                           !.bg = Tail(@)]), "outboxFailed")
  /\ UNCHANGED <<now, cardVars, chainVars, calls, hook>>

CommitCard(c, S, cache, cpc, tx, op) ==
  /\ calls' = IF cardPc[c] = "idle" THEN calls + 1 ELSE calls
  /\ ledger' = S.ledger
  /\ outboxCache' = cache
  /\ cardPc' = [cardPc EXCEPT ![c] = cpc]
  /\ cardTx' = [cardTx EXCEPT ![c] = tx]
  /\ obs' = Observe(op, S)
  /\ UNCHANGED <<nextId, now, lastBackendCheck, procVars, chainVars, disc, det, query>>

\* useBridgeTransactionState.checkTransactionState for a card of the list
\* (mount or 15 s timer): getTransactionById, then checkTransactionState up
\* to the outbox read.  A transaction outside waiting_to_send is returned
\* unchanged without any call.
StartCardBy(c, h, ids) ==
  /\ cardPc[c] = "idle"
  /\ calls < MaxCalls
  /\ \E i \in DOMAIN ledger :
       LET tx == ledger[i]
           k == BatchKey(tx)
       IN /\ tx.id \in ids
          /\ FindById(ledger, tx.id) = i
          /\ tx.status \in {"confirmed", "waiting_to_send"}
          /\ tx.index # ""
          /\ IF cacheFresh(outboxCache, k, now)
             THEN CommitCard(c, writeIfChanged(Store0(ledger), tx,
                                  singleStatus(tx, outboxCache[k].data),
                                  outboxCache[k].data),
                             outboxCache, "idle", NoTx, "checkTransactionState")
             ELSE CommitCard(c, Store0(ledger), outboxCache, "outbox", tx,
                             "checkTransactionState")
  /\ hook' = h

StartCard(c) == StartCardBy(c, hook, {ledger[i].id : i \in DOMAIN ledger})

\* the outbox read of a card check returns
CardResponseBy(c, h) ==
  /\ cardPc[c] = "outbox"
  /\ hook' = h
  /\ LET tx == cardTx[c]
         n == chainSent[tx.token]
     IN CommitCard(c, writeIfChanged(Store0(ledger), tx, singleStatus(tx, n), n),
                   cacheSet(outboxCache, BatchKey(tx), n, now), "idle", NoTx,
                   "cardOutbox")

CardResponse(c) == CardResponseBy(c, hook)

\* the outbox read of a card check throws
CardFailBy(c, h) ==
  /\ cardPc[c] = "outbox"
  /\ hook' = h
  /\ CommitCard(c, failedResults(Store0(ledger), <<cardTx[c]>>), outboxCache, "idle",
                NoTx, "outboxFailed")

CardFail(c) == CardFailBy(c, hook)

CommitUser(S, op) ==
  /\ ledger' = S.ledger
  /\ obs' = Observe(op, S)
  /\ UNCHANGED <<now, serviceVars, procVars, cardVars, calls, disc, det, query>>

\* NewBridgeForm, lines 94-130: the transfer is inserted into the source
\* outbox at the next index and stored when its event is observed; the hook
\* is left as h
StoreTransferBy(token, h) ==
  /\ NumStored < MaxStore
  /\ hook' = h
  /\ LET tx == [id |-> generateTransactionId(nextId),
                transactionHash |-> "0xhash" \o ToString(nextId),
                projectId |-> ProjectIdOf(token),
                sourceChainId |-> SourceChain,
                targetChainId |-> TargetChain,
                suckerAddress |-> Sucker,
                beneficiary |-> Beneficiary,
                token |-> token,
                projectTokenCount |-> "1000",
                terminalTokenAmount |-> "1000",
                minTokensReclaimed |-> "0",
                hashed |-> "0xhashed",
                index |-> ToString(chainCount[token]),
                root |-> "0xroot",
                caller |-> Beneficiary,
                claimProof |-> NullProof,
                claimLeaf |-> NullLeaf,
                timestamp |-> now,
                status |-> "waiting_to_send"]
     IN CommitUser(storeBridgeTransaction(Store0(ledger), tx), "storeBridgeTransaction")
  /\ nextId' = nextId + 1
  /\ chainCount' = [chainCount EXCEPT ![token] = @ + 1]
  /\ UNCHANGED chainSent

StoreTransfer(token) == StoreTransferBy(token, hook)

\* sucker.toRemote on the source chain: every inserted leaf is sent
ToRemote(token) ==
  /\ chainSent[token] < chainCount[token]
  /\ chainSent' = [chainSent EXCEPT ![token] = chainCount[token]]
  /\ obs' = Observe("toRemote", Store0(ledger))
  /\ UNCHANGED <<storeVars, now, serviceVars, procVars, cardVars, chainCount, calls, disc, det, query, hook>>

\* ClaimButton: the claim of a ready_to_claim transaction is confirmed
ClaimExecuted ==
  /\ \E i \in DOMAIN ledger :
       /\ ledger[i].status = "ready_to_claim"
       /\ ledger[i].claimProof # NullProof
       /\ CommitUser(updateTransactionStatus(Store0(ledger), ledger[i].id, "claimed"),
                     "claimExecuted")
  /\ UNCHANGED <<nextId, chainVars, hook>>

\* clearAllTransactions: localStorage.removeItem, no event
ClearAll ==
  /\ ledger # <<>>
  /\ CommitUser(Store0(<<>>), "clearAllTransactions")
  /\ UNCHANGED <<nextId, chainVars, hook>>

Tick ==
  /\ now < MaxTime
  /\ now' = now + TickMs
  /\ obs' = Observe("tick", Store0(ledger))
  /\ UNCHANGED <<storeVars, serviceVars, procVars, cardVars, chainVars, calls, disc, det, query, hook>>

\* the state after page load, the chains answering probes as world says
Loaded(world) ==
  /\ ledger = <<>>
  /\ nextId = 1
  /\ now = StartTime
  /\ outboxCache = <<>>
  /\ lastBackendCheck = 0
  /\ isChecking = FALSE
  /\ pc = [p \in Procs |-> "idle"]
  /\ kind = [p \in Procs |-> "none"]
  /\ claimGroups = [p \in Procs |-> <<>>]
  /\ claimsLeft = [p \in Procs |-> <<>>]
  /\ batchGroups = [p \in Procs |-> <<>>]
  /\ cardPc = [c \in Cards |-> "idle"]
  /\ cardTx = [c \in Cards |-> NoTx]
  /\ chainCount = [t \in Tokens |-> 0]
  /\ chainSent = [t \in Tokens |-> 0]
  /\ calls = 0
  /\ obs = Observe("init", Store0(<<>>))
  /\ disc = NoDiscovery
  /\ det = DetState(world)
  /\ query = NoQuery
  /\ hook = NoHook

Init == Loaded("fixed")

Next ==
  \/ \E p \in Procs : StartSweep(p)
  \/ \E p \in Procs : StartForce(p)
  \/ \E p \in Procs : ClaimsResponse(p)
  \/ \E p \in Procs : ClaimsFail(p)
  \/ \E p \in Procs : ProjectFound(p)
  \/ \E p \in Procs : ProjectMissing(p)
  \/ \E p \in Procs : OutboxResponse(p)
  \/ \E p \in Procs : OutboxFail(p)
  \/ \E c \in Cards : StartCard(c)
  \/ \E c \in Cards : CardResponse(c)
  \/ \E c \in Cards : CardFail(c)
  \/ \E t \in Tokens : StoreTransfer(t)
  \/ \E t \in Tokens : ToRemote(t)
  \/ ClaimExecuted
  \/ ClearAll
  \/ Tick

Spec == Init /\ [][Next]_vars

(***************************************************************************)
(* The outbox cache under a finer clock: one monitor call at a time and the *)
(* card checks, with the clock advancing in quarters of a minute so that    *)
(* cached snapshots are met below, at and above CACHE_TTL                   *)
(***************************************************************************)
TickCache ==
  /\ now < StartTime + MaxCacheTicks * CacheTickMs
  /\ now' = now + CacheTickMs
  /\ obs' = Observe("tick", Store0(ledger))
  /\ UNCHANGED <<storeVars, serviceVars, procVars, cardVars, chainVars, calls, disc, det, query, hook>>

NextCache ==
  \/ StartSweep("p1")
  \/ ClaimsResponse("p1")
  \/ ClaimsFail("p1")
  \/ ProjectFound("p1")
  \/ ProjectMissing("p1")
  \/ OutboxResponse("p1")
  \/ OutboxFail("p1")
  \/ \E c \in Cards : StartCard(c)
  \/ \E c \in Cards : CardResponse(c)
  \/ \E c \in Cards : CardFail(c)
  \/ \E t \in Tokens : StoreTransfer(t)
  \/ \E t \in Tokens : ToRemote(t)
  \/ TickCache

SpecCache == Init /\ [][NextCache]_vars

(***************************************************************************)
(* The request grouping of the backend pass: the ledger is any list of      *)
(* stored transfers whose addresses are written in either case, towards     *)
(* either of two chains, waiting_to_send, sent_to_remote without proof or   *)
(* sent_to_remote with a proof; forced passes then walk their groups        *)
(***************************************************************************)
StoredTx(i, c) ==
  [id |-> generateTransactionId(i),
   transactionHash |-> "0xhash" \o ToString(i),
   projectId |-> ProjectIdOf(toLowerCase(c.token)),
   sourceChainId |-> SourceChain,
   targetChainId |-> c.chain,
   suckerAddress |-> c.sucker,
   beneficiary |-> c.beneficiary,
   token |-> c.token,
   projectTokenCount |-> "1000",
   terminalTokenAmount |-> "1000",
   minTokensReclaimed |-> "0",
   hashed |-> "0xhashed",
   index |-> ToString(i - 1),
   root |-> "0xroot",
   caller |-> c.beneficiary,
   claimProof |-> IF c.state = "proved" THEN <<"0xproof" \o ToString(i - 1)>> ELSE NullProof,
   claimLeaf |-> NullLeaf,
   timestamp |-> StartTime,
   status |-> IF c.state = "waiting" THEN "waiting_to_send" ELSE "sent_to_remote"]

GroupChoices ==
  [token : {"0xt1", "0xT1", "0xt2"}, sucker : {"0xsucker", "0xSucker"},
   beneficiary : {"0xbeneficiary", "0xBeneficiary"},
   chain : {TargetChain, BaseChain}, state : {"waiting", "sent", "proved"}]

\* the ledgers of at most max stored transfers
GroupInputs(max) ==
  UNION {{[i \in 1..n |-> StoredTx(i, cs[i])] : cs \in [1..n -> GroupChoices]} :
           n \in 0..max}

InitGroups ==
  /\ ledger \in GroupInputs(MaxGroupTxs)
  /\ nextId = Len(ledger) + 1
  /\ now = StartTime
  /\ outboxCache = <<>>
  /\ lastBackendCheck = 0
  /\ isChecking = FALSE
  /\ pc = [p \in Procs |-> "idle"]
  /\ kind = [p \in Procs |-> "none"]
  /\ claimGroups = [p \in Procs |-> <<>>]
  /\ claimsLeft = [p \in Procs |-> <<>>]
  /\ batchGroups = [p \in Procs |-> <<>>]
  /\ cardPc = [c \in Cards |-> "idle"]
  /\ cardTx = [c \in Cards |-> NoTx]
  /\ chainCount = [t \in Tokens |-> 0]
  /\ chainSent = [t \in Tokens |-> 0]
  /\ calls = MaxCalls - 1
  /\ obs = Observe("init", Store0(<<>>))
  /\ disc = NoDiscovery
  /\ det = DetState("fixed")
  /\ query = NoQuery
  /\ hook = NoHook

NextGroups ==
  \/ StartForce("p1")
  \/ ClaimsResponse("p1")
  \/ ClaimsFail("p1")
  \/ ProjectFound("p1")
  \/ ProjectMissing("p1")

SpecGroups == InitGroups /\ [][NextGroups]_vars

(***************************************************************************)
(* removeDuplicateTransactions on its own: the stored list is any list in   *)
(* which a record's id determines its transaction hash (ids are generated   *)
(* once per transfer), with repeated ids, shared hashes and equal           *)
(* timestamps                                                               *)
(***************************************************************************)
DedupRecords ==
  [id : {"bridge-1", "bridge-2", "bridge-3"},
   transactionHash : {"", "0xhash1"},
   timestamp : 1..MaxTs]

DedupInputs(max) ==
  {L \in UNION {[1..n -> DedupRecords] : n \in 0..max} :
     \A i \in DOMAIN L : \A j \in DOMAIN L :
       L[i].id = L[j].id => L[i].transactionHash = L[j].transactionHash}

InitDedup ==
  /\ ledger \in DedupInputs(MaxLen)
  /\ nextId = 1
  /\ now = StartTime
  /\ outboxCache = <<>>
  /\ lastBackendCheck = 0
  /\ isChecking = FALSE
  /\ pc = [p \in Procs |-> "idle"]
  /\ kind = [p \in Procs |-> "none"]
  /\ claimGroups = [p \in Procs |-> <<>>]
  /\ claimsLeft = [p \in Procs |-> <<>>]
  /\ batchGroups = [p \in Procs |-> <<>>]
  /\ cardPc = [c \in Cards |-> "idle"]
  /\ cardTx = [c \in Cards |-> NoTx]
  /\ chainCount = [t \in Tokens |-> 0]
  /\ chainSent = [t \in Tokens |-> 0]
  /\ calls = 0
  /\ obs = Observe("init", Store0(<<>>))
  /\ disc = NoDiscovery
  /\ det = DetState("fixed")
  /\ query = NoQuery
  /\ hook = NoHook

\* one call of removeDuplicateTransactions on the stored list; the list
\* reloads on every change notification, so the call repeats on its own
\* output
RemoveDuplicates ==
  /\ calls < MaxDedupCalls
  /\ calls' = calls + 1
  /\ LET d == removeDuplicateTransactions(ledger)
     IN /\ ledger' = d
        /\ obs' = Observe("removeDuplicateTransactions",
                          [Store0(d) EXCEPT !.emitted = (d # ledger)])
  /\ UNCHANGED <<nextId, now, serviceVars, procVars, cardVars, chainVars, disc, det, query, hook>>

NextDedup == RemoveDuplicates

SpecDedup == InitDedup /\ [][NextDedup]_vars

(***************************************************************************)
(* Properties                                                               *)
(***************************************************************************)
\* the process or card whose locals the step changed
Acted(p) ==
  \/ pc'[p] # pc[p]
  \/ claimGroups'[p] # claimGroups[p]
  \/ claimsLeft'[p] # claimsLeft[p]
  \/ batchGroups'[p] # batchGroups[p]

\* two records describe the same claim: same target chain, sucker, token,
\* beneficiary and leaf index
SameClaim(a, b) ==
  /\ a.targetChainId = b.targetChainId
  /\ toLowerCase(a.suckerAddress) = toLowerCase(b.suckerAddress)
  /\ toLowerCase(a.token) = toLowerCase(b.token)
  /\ toLowerCase(a.beneficiary) = toLowerCase(b.beneficiary)
  /\ a.index = b.index

\* C1: the status stored for a transaction never moves backward in
\* initiated < waiting_to_send < sent_to_remote < ready_to_claim < claimed
C1_StatusMonotonic ==
  [][\A i \in DOMAIN ledger : \A j \in DOMAIN ledger' :
       ledger[i].id = ledger'[j].id
         => Rank(ledger'[j].status) >= Rank(ledger[i].status)]_vars

\* C2: at most one checkStates cycle of the monitor is in flight
C2_OneCycleInFlight ==
  Cardinality({p \in Procs : kind[p] = "sweep" /\ pc[p] # "idle"}) <= 1

\* C3: a sweep's backend pass passes the rate limit only 60 s or more after
\* the last accepted pass, and a sweep arriving earlier issues no claims
\* request and leaves lastBackendCheck alone
C3_BackendRateLimit ==
  [][obs'.op = "checkStates" =>
       /\ lastBackendCheck' # lastBackendCheck
            => /\ now - lastBackendCheck >= BACKEND_CHECK_INTERVAL
               /\ lastBackendCheck' = now
       /\ now - lastBackendCheck < BACKEND_CHECK_INTERVAL
            => /\ lastBackendCheck' = lastBackendCheck
               /\ \A p \in Procs : pc[p] = "idle" => pc'[p] \notin {"claims", "project"}]_vars

\* C3 witness: a sweep has just run less than 60 s after an accepted pass,
\* transactions were waiting for claim data, and it issued no request
C3_Witness ==
  /\ obs.op = "checkStates"
  /\ lastBackendCheck > 0
  /\ now - lastBackendCheck < BACKEND_CHECK_INTERVAL
  /\ getTransactionsNeedingClaimData(ledger) # <<>>
  /\ \A p \in Procs : pc[p] \notin {"claims", "project"}

\* C4: a claim is materialized only when the ledger holds no transaction for
\* that claim
C4_MaterializeOnlyUnknown ==
  [][obs'.created # NoTx =>
       \A i \in DOMAIN ledger : ~SameClaim(ledger[i], obs'.created)]_vars

\* C5: only clearAllTransactions removes a record that describes a transfer
\* no remaining record describes
C5_NoAutomaticDeletion ==
  [][obs'.op = "clearAllTransactions"
       \/ \A i \in DOMAIN ledger : \E j \in DOMAIN ledger' :
            SameClaim(ledger[i], ledger'[j])]_vars

\* C6: every change of the persisted collection dispatches
\* 'bridge-transactions-updated'
C6_EveryMutationNotifies ==
  [][ledger' # ledger => obs'.emitted]_vars

\* C7: a waiting_to_send transaction evaluated against an outbox snapshot
\* with numberOfClaimsSent = n becomes sent_to_remote if and only if its
\* index is below n; otherwise its stored status is left as it was
C7_SentIffIndexBelow ==
  [][\A e \in obs'.evaluated :
       LET i == FindById(ledger, e.id)
           j == FindById(ledger', e.id)
       IN (e.status = "waiting_to_send" /\ i # 0 /\ j # 0)
            => IF e.index # "" /\ parseInt(e.index) < e.n
               THEN ledger'[j].status = "sent_to_remote"
               ELSE ledger'[j].status = ledger[i].status]_vars

\* C7 witness: one snapshot with n > 0 has moved the transaction below n to
\* sent_to_remote and left the transaction with index = n in waiting_to_send
C7_Witness ==
  \E e1 \in obs.evaluated : \E e2 \in obs.evaluated :
    /\ e1.status = "waiting_to_send" /\ e2.status = "waiting_to_send"
    /\ e1.n = e2.n /\ e1.n > 0
    /\ parseInt(e1.index) < e1.n /\ parseInt(e2.index) = e2.n
    /\ FindById(ledger, e1.id) # 0 /\ FindById(ledger, e2.id) # 0
    /\ ledger[FindById(ledger, e1.id)].status = "sent_to_remote"
    /\ ledger[FindById(ledger, e2.id)].status = "waiting_to_send"

C9_MaterializeUnknownClaim ==
  [][\A p \in Procs :
       (pc[p] = "project" /\ Acted(p) /\ obs'.op = "projectFound") =>
         LET c == Head(claimsLeft[p])
             r == Head(claimGroups[p]).request
             new == {j \in DOMAIN ledger' : ledger'[j].id \notin Ids(ledger)}
         IN /\ Cardinality(new) = 1
            /\ \A j \in new :
                 /\ ledger'[j].status = "ready_to_claim"
                 /\ ledger'[j].claimLeaf = c.Leaf
                 /\ ledger'[j].claimProof = c.Proof
                 /\ ledger'[j].index = c.Leaf.Index
                 /\ ledger'[j].token = c.Token
                 /\ ledger'[j].beneficiary = c.Leaf.Beneficiary
                 /\ ledger'[j].targetChainId = r.chainId
                 /\ ledger'[j].sourceChainId = 0
                 /\ ledger'[j].transactionHash = ""
                 /\ ledger'[j].hashed = ""
                 /\ ledger'[j].root = ""
                 /\ ledger'[j].caller = ZeroAddress]_vars

\* C10: after removeDuplicateTransactions no two records share an id or a
\* transaction hash, and for every hash of the input the one surviving
\* record with that hash is an input record with that hash whose timestamp
\* is the greatest among the input records with that hash
C10_DedupKeepsMostRecent ==
  [][obs'.op = "removeDuplicateTransactions" =>
       /\ \A i \in DOMAIN ledger' : \A j \in DOMAIN ledger' :
            i # j => /\ ledger'[i].id # ledger'[j].id
                     /\ ledger'[i].transactionHash # ledger'[j].transactionHash
       /\ \A k \in DOMAIN ledger :
            LET h == ledger[k].transactionHash
                kept == {j \in DOMAIN ledger' : ledger'[j].transactionHash = h}
            IN /\ Cardinality(kept) = 1
               /\ \A j \in kept :
                    /\ \E i \in DOMAIN ledger : ledger[i] = ledger'[j]
                    /\ \A i \in DOMAIN ledger :
                         ledger[i].transactionHash = h
                           => ledger'[j].timestamp >= ledger[i].timestamp]_vars

\* C10 witness: the input held two records with one hash under different
\* ids, the older one first, and the call has left the newer one only
C10_Witness ==
  /\ obs.op = "removeDuplicateTransactions"
  /\ \E i \in DOMAIN obs.input : \E j \in DOMAIN obs.input :
       /\ i < j
       /\ obs.input[i].id # obs.input[j].id
       /\ obs.input[i].transactionHash = obs.input[j].transactionHash
       /\ obs.input[i].timestamp < obs.input[j].timestamp
       /\ \E k \in DOMAIN ledger : ledger[k] = obs.input[j]
       /\ \A k \in DOMAIN ledger : ledger[k] # obs.input[i]
  /\ Len(ledger) < Len(obs.input)

\* the transactions of the groups of a list of groups
GroupTxs(groups) ==
  UNION {{<<i, k>> : k \in DOMAIN groups[i].transactions} : i \in DOMAIN groups}

\* C11: within one on-chain pass the groups still to fetch have pairwise
\* distinct (sourceChainId, suckerAddress, token) tuples and a tuple that has
\* been fetched is not fetched again; when the awaited group is evaluated,
\* every transaction of it is evaluated, and all evaluations of one tuple in
\* a step use the same numberOfClaimsSent
C11_OneSnapshotPerGroup ==
  [][/\ \A p \in Procs :
          LET bg == batchGroups'[p]
          IN /\ \A a \in GroupTxs(bg) : \A b \in GroupTxs(bg) :
                  a[1] # b[1] => BatchKey(bg[a[1]].transactions[a[2]])
                                   # BatchKey(bg[b[1]].transactions[b[2]])
             /\ (pc[p] = "outbox" /\ Acted(p)) =>
                  LET txs == Head(batchGroups[p]).transactions
                  IN /\ \A a \in GroupTxs(bg) :
                          BatchKey(bg[a[1]].transactions[a[2]]) # BatchKey(txs[1])
                     /\ (\E k \in DOMAIN txs : \E e \in obs'.evaluated : e.id = txs[k].id)
                          => \A k \in DOMAIN txs : \E e \in obs'.evaluated :
                               /\ e.id = txs[k].id
                               /\ e.n = chainSent[txs[k].token]
     /\ \A e1 \in obs'.evaluated : \A e2 \in obs'.evaluated :
          e1.key = e2.key => e1.n = e2.n]_vars

\* C11 witness: one snapshot with n > 0 has just served two transactions of
\* one group
C11_Witness ==
  \E e1 \in obs.evaluated : \E e2 \in obs.evaluated :
    e1.id # e2.id /\ e1.key = e2.key /\ e1.n = e2.n /\ e1.n > 0

\* the call that was awaiting the outbox read of key k and acts in the step
FetchReturns(k) ==
  \/ \E p \in Procs : /\ pc[p] = "outbox" /\ Acted(p)
                      /\ BatchKey(Head(batchGroups[p]).transactions[1]) = k
  \/ \E c \in Cards : /\ cardPc[c] = "outbox" /\ cardPc'[c] = "idle"
                      /\ BatchKey(cardTx[c]) = k

\* C12: every status decision uses, for the key of its transaction, either
\* the entry cached under that key less than CACHE_TTL ago, or the snapshot
\* an outbox read of that key has just returned, which replaces the entry
C12_CacheFreshSameKey ==
  [][\A e \in obs'.evaluated :
       \/ /\ e.key \in DOMAIN outboxCache
          /\ now - outboxCache[e.key].timestamp < CACHE_TTL
          /\ e.n = outboxCache[e.key].data
       \/ /\ FetchReturns(e.key)
          /\ e.n = chainSent[e.key[3]]
          /\ outboxCache'[e.key] = [data |-> e.n, timestamp |-> now]]_vars

\* C12 witness: CACHE_TTL or more after the page load, the decision on a
\* waiting_to_send transaction rests on a snapshot with n > 0 that was
\* cached in this very step
C12_Witness ==
  \E e \in obs.evaluated :
    /\ e.key \in DOMAIN outboxCache
    /\ outboxCache[e.key] = [data |-> e.n, timestamp |-> now]
    /\ now - StartTime >= CACHE_TTL
    /\ e.n > 0
    /\ e.status = "waiting_to_send"

\* the status lines 318-326 (196-200) compute for an evaluated transaction
Computed(e) ==
  IF e.index # "" /\ parseInt(e.index) < e.n THEN "sent_to_remote" ELSE e.status

\* C13: a stored status becomes sent_to_remote in a step only for a
\* transaction the step evaluated with a computed status different from its
\* previous one, and an on-chain pass step (no claim handled, no record
\* created) in which no evaluated transaction changes status neither
\* changes the ledger nor dispatches the notification
C13_PersistOnlyOnChange ==
  [][/\ \A i \in DOMAIN ledger : \A j \in DOMAIN ledger' :
          (/\ ledger[i].id = ledger'[j].id
           /\ ledger'[j].status # ledger[i].status
           /\ ledger'[j].status = "sent_to_remote")
            => \E e \in obs'.evaluated : e.id = ledger[i].id /\ Computed(e) # e.status
     /\ (/\ obs'.evaluated # {} /\ obs'.claims = {} /\ obs'.created = NoTx
         /\ \A e \in obs'.evaluated : Computed(e) = e.status)
          => (ledger' = ledger /\ ~obs'.emitted)]_vars

\* C13 witness: a check has just evaluated a waiting_to_send transaction with
\* index = numberOfClaimsSent and dispatched nothing
C13_Witness ==
  /\ ~obs.emitted
  /\ \E e \in obs.evaluated :
       /\ e.status = "waiting_to_send"
       /\ parseInt(e.index) = e.n
       /\ \E i \in DOMAIN ledger : ledger[i].id = e.id /\ ledger[i].status = e.status

\* C14: when the outbox read of a group or of a per-transaction check
\* fails, the transactions of the group keep their stored status and are
\* reported unchanged (currentStatus = previousStatus, statusChanged false),
\* the ledger is written only for transactions of later groups, and every
\* remaining group of the sweep is evaluated or is still to be fetched
C14_OutboxFailureNoChange ==
  [][obs'.op = "outboxFailed" =>
       /\ \A p \in Procs : (pc[p] = "outbox" /\ Acted(p)) =>
            LET txs == Head(batchGroups[p]).transactions
                rest == Tail(batchGroups[p])
            IN /\ \A k \in DOMAIN txs :
                    /\ BridgeStateInfo(txs[k], txs[k].status) \in obs'.results
                    /\ \A r \in obs'.results :
                         r.transactionId = txs[k].id =>
                           r.currentStatus = r.previousStatus /\ ~r.statusChanged
                    /\ \A i \in DOMAIN ledger : \A j \in DOMAIN ledger' :
                         (ledger[i].id = txs[k].id /\ ledger'[j].id = txs[k].id)
                           => ledger'[j].status = ledger[i].status
               /\ \A a \in GroupTxs(rest) :
                    \/ \E e \in obs'.evaluated : e.id = rest[a[1]].transactions[a[2]].id
                    \/ /\ pc'[p] = "outbox"
                       /\ \E b \in GroupTxs(batchGroups'[p]) :
                            batchGroups'[p][b[1]].transactions[b[2]]
                              = rest[a[1]].transactions[a[2]]
       /\ \A c \in Cards : (cardPc[c] = "outbox" /\ cardPc'[c] = "idle") =>
            /\ ledger' = ledger
            /\ obs'.results = {BridgeStateInfo(cardTx[c], cardTx[c].status)}]_vars

\* C14 witness: the outbox read of the first group of a sweep has just
\* failed, its transaction is reported unchanged and is still
\* waiting_to_send, and the sweep is fetching the snapshot of the next group
C14_Witness ==
  /\ obs.op = "outboxFailed"
  /\ \E p \in Procs : pc[p] = "outbox" /\ batchGroups[p] # <<>>
  /\ \E r \in obs.results : \E i \in DOMAIN ledger :
       /\ ledger[i].id = r.transactionId
       /\ ledger[i].status = "waiting_to_send"
       /\ ~r.statusChanged
       /\ \A p \in Procs : \A b \in GroupTxs(batchGroups[p]) :
            batchGroups[p][b[1]].transactions[b[2]].id # r.transactionId

\* the statuses the on-chain pass selects (lines 240-246)
Selected(tx) == tx.status \in {"confirmed", "waiting_to_send", "sent_to_remote"}

\* C15: whatever happens to one request group - the claims request throws,
\* a malformed claim makes the matching throw, the project id is not
\* resolved - the pass goes on: it stays in the group for its next claim,
\* or requests the next group, or, after the last group, ends normally, and
\* then the sweep that called it runs its on-chain pass; a group that threw
\* is left for the next group or the end of the pass
C15_GroupFailureIsolated ==
  [][\A p \in Procs : (pc[p] \in {"claims", "project"} /\ Acted(p)) =>
       /\ \/ /\ pc'[p] = "project"
             /\ claimGroups'[p] = claimGroups[p]
          \/ /\ pc'[p] = "claims"
             /\ Tail(claimGroups[p]) # <<>>
             /\ claimGroups'[p] = Tail(claimGroups[p])
          \/ /\ Tail(claimGroups[p]) = <<>>
             /\ pc'[p] \in {"idle", "outbox"}
             /\ (kind[p] = "sweep" /\ pc'[p] = "idle") =>
                  \A j \in DOMAIN ledger' :
                    Selected(ledger'[j]) =>
                      \E r \in obs'.results : r.transactionId = ledger'[j].id
       /\ obs'.threw => pc'[p] # "project"
       /\ (obs'.threw /\ pc[p] = "claims" /\ obs'.claims = {}) =>
            \A i \in DOMAIN ledger : \A j \in DOMAIN ledger' :
              ledger[i].id = ledger'[j].id => ledger'[j].claimProof = ledger[i].claimProof]_vars

\* C15 witness: the request of the first group of a pass has just thrown,
\* its transaction is still sent_to_remote without proof, and the pass is
\* awaiting the response for the next group
C15_Witness ==
  /\ obs.threw
  /\ obs.claims = {}
  /\ \E p \in Procs :
       /\ pc[p] = "claims"
       /\ \E i \in DOMAIN ledger :
            /\ ledger[i].status = "sent_to_remote"
            /\ ledger[i].claimProof = NullProof
            /\ ClaimKey(ledger[i]) # Head(claimGroups[p]).key

\* a stored transaction the backend pass has to query for
NeedsClaimData(tx) == tx.status = "sent_to_remote" /\ tx.claimProof = NullProof

\* two transactions belong to one request: same target chain and, case
\* folded, same sucker, token and beneficiary
SameRequest(a, b) ==
  /\ a.targetChainId = b.targetChainId
  /\ toLowerCase(a.suckerAddress) = toLowerCase(b.suckerAddress)
  /\ toLowerCase(a.token) = toLowerCase(b.token)
  /\ toLowerCase(a.beneficiary) = toLowerCase(b.beneficiary)

\* C16: a backend pass that gets past the rate limit builds its request
\* groups from exactly the sent_to_remote transactions without proof, two of
\* them in one group iff chain and case-folded sucker, token and beneficiary
\* agree; it requests the first group at once, no request when there is no
\* group, and afterwards each following group once, in order
C16_OneRequestPerGroup ==
  [][\A p \in Procs :
       /\ (pc[p] = "idle" /\ Acted(p)
           /\ (obs'.op = "forceBackendCheck" \/ now - lastBackendCheck >= BACKEND_CHECK_INTERVAL)) =>
            LET cg == claimGroups'[p]
                tx(a) == cg[a[1]].transactions[a[2]]
            IN /\ {tx(a) : a \in GroupTxs(cg)}
                    = {ledger[i] : i \in {j \in DOMAIN ledger : NeedsClaimData(ledger[j])}}
               /\ \A a \in GroupTxs(cg) : \A b \in GroupTxs(cg) :
                    (a[1] = b[1]) <=> SameRequest(tx(a), tx(b))
               /\ \A a \in GroupTxs(cg) :
                    /\ cg[a[1]].request.chainId = tx(a).targetChainId
                    /\ toLowerCase(cg[a[1]].request.sucker) = toLowerCase(tx(a).suckerAddress)
                    /\ toLowerCase(cg[a[1]].request.token) = toLowerCase(tx(a).token)
                    /\ toLowerCase(cg[a[1]].request.beneficiary) = toLowerCase(tx(a).beneficiary)
               /\ \A i \in DOMAIN cg : cg[i].transactions # <<>>
               /\ (pc'[p] = "claims") <=> (cg # <<>>)
       /\ (pc[p] \in {"claims", "project"} /\ Acted(p)) =>
            \/ pc'[p] = "project" /\ claimGroups'[p] = claimGroups[p]
            \/ /\ pc'[p] = "claims" /\ claimGroups'[p] = Tail(claimGroups[p])
               /\ claimGroups'[p] # <<>>
            \/ /\ pc'[p] \notin {"claims", "project"} /\ Tail(claimGroups[p]) = <<>>]_vars

\* C16 witness: a pass is awaiting its one request for a group of two
\* transactions whose token is written in different case
C16_Witness ==
  \E p \in Procs :
    /\ pc[p] = "claims"
    /\ Len(claimGroups[p]) = 1
    /\ LET txs == claimGroups[p][1].transactions
       IN /\ Len(txs) = 2
          /\ txs[1].token # txs[2].token
          /\ toLowerCase(txs[1].token) = toLowerCase(txs[2].token)

\* ---------------------------------------------------------------------------
\* SuckerDiscoveryService.  JavaScript strings are sequences of UTF-16 code
\* units: "0" is 48 .. "9" is 57, "-" is 45, ":" is 58, "A" is 65, "a" is 97,
\* "x" is 120.
\* ---------------------------------------------------------------------------

\* chain ids the pair ids are built from: mainnet, Optimism, Base
ChainIds == {SourceChain, TargetChain, BaseChain}

\* sucker addresses as the registry may spell them: "0xab", "0xAb", "0xaB",
\* "0xcd", "0xCD"
Addresses ==
  { <<48, 120, 97, 98>>, <<48, 120, 65, 98>>, <<48, 120, 97, 66>>,
    <<48, 120, 99, 100>>, <<48, 120, 67, 68>> }

\* `${n}` of a non-negative integer: its decimal digits
RECURSIVE toString(_)
toString(n) ==
  IF n < 10 THEN <<48 + n>> ELSE toString(n \div 10) \o <<48 + (n % 10)>>

\* String.prototype.toLowerCase on a string of ASCII code units
lowerCased(s) ==
  [i \in 1..Len(s) |-> IF s[i] >= 65 /\ s[i] <= 90 THEN s[i] + 32 ELSE s[i]]

\* the < of two strings: lexicographic on code units, a proper prefix is smaller
RECURSIVE stringLess(_, _)
stringLess(a, b) ==
  IF a = <<>> THEN b # <<>>
  ELSE IF b = <<>> THEN FALSE
  ELSE IF Head(a) < Head(b) THEN TRUE
  ELSE IF Head(a) > Head(b) THEN FALSE
  ELSE stringLess(Tail(a), Tail(b))

\* `${chainId}-${address.toLowerCase()}`
pairEnd(chainId, address) == toString(chainId) \o <<45>> \o lowerCased(address)

\* the id without the ordering of its two ends
createSuckerPairIdUnsorted(chainAId, addressA, chainBId, addressB) ==
  pairEnd(chainAId, addressA) \o <<58>> \o pairEnd(chainBId, addressB)

createSuckerPairId(chainAId, addressA, chainBId, addressB) ==
  LET pairA == pairEnd(chainAId, addressA)
      pairB == pairEnd(chainBId, addressB)
  IN  IF stringLess(pairA, pairB) THEN pairA \o <<58>> \o pairB
      ELSE pairB \o <<58>> \o pairA

\* two spellings of one address: the same characters up to the case of letters
sameAddress(a, b) ==
  /\ Len(a) = Len(b)
  /\ \A i \in 1..Len(a) :
       \/ a[i] = b[i]
       \/ a[i] >= 65 /\ a[i] <= 90 /\ b[i] = a[i] + 32
       \/ b[i] >= 65 /\ b[i] <= 90 /\ a[i] = b[i] + 32

\* createSuckerPairId is called for a pair seen from one end, from the other
\* end, and from the other end with the addresses spelled in another case
ComputePairId ==
  /\ disc.pc = "off"
  /\ \E chainA \in ChainIds, chainB \in ChainIds,
        addrA \in Addresses, addrB \in Addresses,
        otherA \in Addresses, otherB \in Addresses :
       /\ sameAddress(addrA, otherA)
       /\ sameAddress(addrB, otherB)
       /\ disc' = [pc |-> "pairId",
                   chainA |-> chainA, addrA |-> addrA,
                   chainB |-> chainB, addrB |-> addrB,
                   otherA |-> otherA, otherB |-> otherB,
                   fromA |-> createSuckerPairId(chainA, addrA, chainB, addrB),
                   fromB |-> createSuckerPairId(chainB, addrB, chainA, addrA),
                   fromOther |-> createSuckerPairId(chainB, otherB, chainA, otherA)]
  /\ UNCHANGED <<storeVars, now, serviceVars, procVars, cardVars, chainVars, calls, obs, det, query, hook>>

NextPairId == ComputePairId

SpecPairId == Init /\ [][NextPairId]_vars

\* C17: the pair id computed from one end of a pair equals the id computed
\* from the other end, and stays the same when the two addresses are spelled
\* in another case.
C17_PairIdSymmetric ==
  disc.pc = "pairId" =>
    /\ disc.fromA = disc.fromB
    /\ disc.fromA = disc.fromOther

\* a pair whose two ends are different, whose first end is the larger string
\* (so the ends are swapped when seen from it), and whose other spelling
\* really differs
C17_Witness ==
  /\ disc.pc = "pairId"
  /\ stringLess(pairEnd(disc.chainB, disc.addrB), pairEnd(disc.chainA, disc.addrA))
  /\ disc.otherA # disc.addrA
  /\ disc.otherB # disc.addrB

\* ---------------------------------------------------------------------------
\* BridgeDetectionService: detectSuckerBridge, its cache and the deployer
\* mappings.  One step runs a call up to its next isSucker probe.
\* ---------------------------------------------------------------------------

\* the keys of SUPPORTED_CHAINS
SUPPORTED_CHAINS == {1, 10, 8453, 42161, 11155111, 11155420, 84532, 421614}

\* a chain id createClient rejects
UnsupportedChain == 999

\* what client.readContract(isSucker) can do: answer true, answer false, throw
ProbeAnswers == {"yes", "no", "fail"}

\* the answers a probe of deployer on chainId can give.  In the fixed world
\* the second deployer claims every sucker on mainnet, no deployer claims one
\* on Optimism, and the deployers are absent from every other chain.
isSucker(world, chainId, deployer) ==
  IF world = "any" THEN ProbeAnswers
  ELSE IF chainId = SourceChain
         THEN (IF deployer = "0x8ca8" THEN {"yes"} ELSE {"no"})
  ELSE IF chainId = TargetChain THEN {"no"}
  ELSE {"fail"}

\* `${chainId}-${suckerAddress.toLowerCase()}`
cacheKey(chainId, suckerAddress) ==
  toString(chainId) \o <<45>> \o lowerCased(suckerAddress)

\* Map.set / a Map read with a default
mapSet(f, k, v) == [x \in DOMAIN f \cup {k} |-> IF x = k THEN v ELSE f[x]]

mapGet(f, k, default) == IF k \in DOMAIN f THEN f[k] ELSE default

\* SuckerBridgeInfo; bridgeInfo is BRIDGE_CONFIGS[type]
SuckerBridgeInfo(chainId, suckerAddress, deployerAddress, type) ==
  [suckerAddress |-> lowerCased(suckerAddress), chainId |-> chainId,
   deployerAddress |-> deployerAddress, type |-> type]

\* the loop goes on after a deployer has answered true; the last probe decides
probeOutcomeNoStop(entries, i, answer) ==
  IF i < Len(entries) THEN [done |-> FALSE, type |-> "none"]
  ELSE [done |-> TRUE, type |-> IF answer = "yes" THEN entries[i].type ELSE "unknown"]

\* a throwing probe ends the loop with no deployer found
probeOutcomeFailEnds(entries, i, answer) ==
  IF answer = "yes" THEN [done |-> TRUE, type |-> entries[i].type]
  ELSE IF answer = "fail" \/ i = Len(entries) THEN [done |-> TRUE, type |-> "unknown"]
  ELSE [done |-> FALSE, type |-> "none"]

\* one iteration of the loop of getSuckerBridgeType: return the type on true,
\* go on to the next deployer on false or on a throw, 'unknown' after the last
probeOutcome(entries, i, answer) ==
  IF answer = "yes" THEN [done |-> TRUE, type |-> entries[i].type]
  ELSE IF i = Len(entries) THEN [done |-> TRUE, type |-> "unknown"]
  ELSE [done |-> FALSE, type |-> "none"]

\* what a step of caller p shows of its call c: the probe that settled in the
\* step (index i of the entries, 0 if none) and what the call returned
Detection(op, p, c, i, answer, type, deployerAddress, hit) ==
  [op |-> op, caller |-> p, key |-> cacheKey(c.chainId, c.suckerAddress),
   type |-> type, deployerAddress |-> deployerAddress, hit |-> hit,
   i |-> i, answer |-> answer, failed |-> c.failed,
   entries |-> c.entries, after |-> c.after, next |-> c.next]

\* the call of caller p ends: the result is cached and returned
detectReturns(d, p, c, i, answer, type, deployerAddress) ==
  LET key == cacheKey(c.chainId, c.suckerAddress)
  IN  [d EXCEPT
        !.bridgeCache = mapSet(@, key,
                          SuckerBridgeInfo(c.chainId, c.suckerAddress, deployerAddress, type)),
        !.returned = mapSet(@, key, mapGet(@, key, {}) \cup {type}),
        !.crossedKeys = IF c.crossed THEN @ \cup {key} ELSE @ \ {key},
        !.call[p] = IdleCall,
        !.last = Detection("return", p, c, i, answer, type, deployerAddress, FALSE)]

\* this.bridgeCache.has(cacheKey)
cached(d, key) == key \in DOMAIN d.bridgeCache

\* detectSuckerBridge(chainId, suckerAddress) up to its first probe: a cached
\* result is returned at once, an unsupported chain gives the fallback
detectSuckerBridge(d, p, chainId, suckerAddress) ==
  LET key == cacheKey(chainId, suckerAddress)
      c == [pc |-> "probe", chainId |-> chainId, suckerAddress |-> suckerAddress,
            entries |-> d.mappings, i |-> 1, failed |-> FALSE,
            after |-> mapGet(d.returned, key, {}), next |-> key \in d.stale,
            crossed |-> FALSE]
      d1 == [d EXCEPT !.stale = @ \ {key}]
  IN  IF cached(d, key)
        THEN [d1 EXCEPT
               !.returned = mapSet(@, key, mapGet(@, key, {}) \cup {d.bridgeCache[key].type}),
               !.last = Detection("return", p, [c EXCEPT !.entries = <<>>], 0, "none",
                                  d.bridgeCache[key].type,
                                  d.bridgeCache[key].deployerAddress, TRUE)]
      ELSE IF chainId \notin SUPPORTED_CHAINS
        THEN detectReturns(d1, p, [c EXCEPT !.entries = <<>>], 0, "none", "unknown", "unknown")
      ELSE IF d.mappings = <<>>
        THEN detectReturns(d1, p, c, 0, "none", "unknown", "detected")
      ELSE [d1 EXCEPT !.call[p] = c,
                      !.last = Detection("start", p, c, 0, "none", "none", "none", FALSE)]

\* the probe the call of caller p awaits settles
probeSettles(d, p, answer) ==
  LET c == d.call[p]
      out == probeOutcome(c.entries, c.i, answer)
  IN  IF out.done THEN detectReturns(d, p, c, c.i, answer, out.type, "detected")
      ELSE [d EXCEPT !.call[p] = [c EXCEPT !.i = @ + 1,
                                           !.failed = @ \/ answer = "fail"],
                     !.last = Detection("probe", p, c, c.i, answer, "none", "none", FALSE)]

\* clearCache(): the results cached so far are due for a new detection; a
\* call that is awaiting a probe has crossed the invalidation, and
\* crossedKeys are the keys whose cached result such a call has written
clearCache(d) ==
  [d EXCEPT !.bridgeCache = <<>>,
            !.stale = @ \cup DOMAIN d.bridgeCache,
            !.crossedKeys = {},
            !.returned = <<>>,
            !.call = [p \in DetCallers |->
                        [@[p] EXCEPT !.after = {},
                                     !.crossed = (d.call[p].pc = "probe")]],
            !.last = [NoDetection EXCEPT !.op = "clearCache"]]

\* Object.assign(DEPLOYER_TO_BRIDGE_TYPE, newMappings): a known deployer gets
\* the new type in place, a new deployer is added at the end
RECURSIVE objectAssign(_, _)
objectAssign(target, source) ==
  IF source = <<>> THEN target
  ELSE LET e == Head(source)
           t == IF \E j \in 1..Len(target) : target[j].deployer = e.deployer
                  THEN [j \in 1..Len(target) |->
                          IF target[j].deployer = e.deployer THEN e ELSE target[j]]
                  ELSE Append(target, e)
       IN  objectAssign(t, Tail(source))

updateDeployerMappings(d, newMappings) ==
  [clearCache(d) EXCEPT !.mappings = objectAssign(@, newMappings),
                        !.updated = newMappings,
                        !.updates = @ + 1,
                        !.last = [NoDetection EXCEPT !.op = "updateDeployerMappings"]]

\* number of updateDeployerMappings calls of a behaviour
MaxUpdates == 1

\* the chains and spellings of a sucker address the page asks about
DetChains == {SourceChain, UnsupportedChain}

DetAddresses == { <<48, 120, 97, 98>>, <<48, 120, 65, 66>> }

\* the mappings an operator passes to updateDeployerMappings
NewMappings ==
  { << [deployer |-> "0xnew", type |-> "ArbitrumCanonical"] >>,
    << [deployer |-> "0x5021", type |-> "CCIP"] >> }

DetFrame ==
  UNCHANGED <<storeVars, now, serviceVars, procVars, cardVars, chainVars, calls, obs,
              disc, query, hook>>

\* an effect of the page calls detectSuckerBridge
DetectCall(p) ==
  /\ p \in {"u1", "u2"}
  /\ det.call[p].pc = "idle"
  /\ \E chainId \in DetChains, suckerAddress \in DetAddresses :
       det' = detectSuckerBridge(det, p, chainId, suckerAddress)
  /\ DetFrame

\* the isSucker probe a page call awaits returns or throws
ProbeSettles(p) ==
  /\ p \in {"u1", "u2"}
  /\ det.call[p].pc = "probe"
  /\ LET c == det.call[p]
     IN  \E answer \in isSucker(det.world, c.chainId, c.entries[c.i].deployer) :
           det' = probeSettles(det, p, answer)
  /\ DetFrame

ClearCache ==
  /\ det' = clearCache(det)
  /\ DetFrame

UpdateDeployerMappings ==
  /\ det.updates < MaxUpdates
  /\ \E m \in NewMappings : det' = updateDeployerMappings(det, m)
  /\ DetFrame

InitDetect == Loaded("any")

NextDetect ==
  \/ \E p \in {"u1", "u2"} : DetectCall(p)
  \/ \E p \in {"u1", "u2"} : ProbeSettles(p)
  \/ ClearCache
  \/ UpdateDeployerMappings

SpecDetect == InitDetect /\ [][NextDetect]_vars

\* BRIDGE_CONFIGS: per bridge type and direction requiresPayment,
\* hasAdditionalSteps, estimatedTimeMinutes
DirectionConfig(requiresPayment, hasAdditionalSteps, estimatedTimeMinutes) ==
  [requiresPayment |-> requiresPayment, hasAdditionalSteps |-> hasAdditionalSteps,
   estimatedTimeMinutes |-> estimatedTimeMinutes]

BRIDGE_CONFIGS ==
  [bridgeType \in BridgeTypes |->
     CASE bridgeType = "ArbitrumCanonical" ->
            [l1ToL2 |-> DirectionConfig(FALSE, FALSE, 10),
             l2ToL1 |-> DirectionConfig(TRUE, TRUE, 10080),
             l2ToL2 |-> DirectionConfig(TRUE, TRUE, 20)]
       [] bridgeType = "OptimismCanonical" ->
            [l1ToL2 |-> DirectionConfig(FALSE, FALSE, 5),
             l2ToL1 |-> DirectionConfig(FALSE, TRUE, 10080),
             l2ToL2 |-> DirectionConfig(TRUE, TRUE, 15)]
       [] bridgeType = "CCIP" ->
            [l1ToL2 |-> DirectionConfig(TRUE, TRUE, 20),
             l2ToL1 |-> DirectionConfig(TRUE, TRUE, 25),
             l2ToL2 |-> DirectionConfig(TRUE, TRUE, 30)]
       [] OTHER ->
            [l1ToL2 |-> DirectionConfig(TRUE, TRUE, 30),
             l2ToL1 |-> DirectionConfig(TRUE, TRUE, 60),
             l2ToL2 |-> DirectionConfig(TRUE, TRUE, 45)]]

L1_CHAINS == {1, 11155111}

L2_CHAINS == {10, 8453, 42161, 11155420, 84532, 421614}

getBridgeDirection(sourceChainId, targetChainId) ==
  IF sourceChainId \in L1_CHAINS /\ targetChainId \in L2_CHAINS THEN "l1ToL2"
  ELSE IF sourceChainId \in L2_CHAINS /\ targetChainId \in L1_CHAINS THEN "l2ToL1"
  ELSE "l2ToL2"

\* 'unknown' read with the profile of a canonical bridge
getBridgeInfoCanonical(bridgeType) ==
  IF bridgeType = "unknown" THEN BRIDGE_CONFIGS["OptimismCanonical"]
  ELSE BRIDGE_CONFIGS[bridgeType]

getBridgeInfo(bridgeType) == BRIDGE_CONFIGS[bridgeType]

getBridgeDirectionConfig(bridgeType, sourceChainId, targetChainId) ==
  getBridgeInfo(bridgeType)[getBridgeDirection(sourceChainId, targetChainId)]

\* bridgeUtils.getBridgeEstimatedTime(bridgeType)
getBridgeEstimatedTime(bridgeType) ==
  CASE bridgeType = "ArbitrumCanonical" -> 10
    [] bridgeType = "OptimismCanonical" -> 5
    [] bridgeType = "CCIP" -> 20
    [] OTHER -> 15

\* source and target chains of a transfer: the two L1, three L2 and a chain
\* the service does not know
ProfileChains == {1, 11155111, 10, 8453, 42161, UnsupportedChain}

QueryFrame ==
  UNCHANGED <<storeVars, now, serviceVars, procVars, cardVars, chainVars, calls, obs,
              disc, det, hook>>

\* after detectSuckerBridge has returned for a sucker, the profile of its
\* classification is read for a source and a target chain, as
\* requiresPaymentForToRemote and hasAdditionalStepsAfterSentToRemote do;
\* unclaimed tells that no deployer had answered true when the sucker was
\* classified
DirectionConfigOfSucker ==
  /\ det.last.op = "return"
  /\ ~det.last.hit
  /\ \E sourceChainId \in ProfileChains, targetChainId \in ProfileChains :
       query' = [fn |-> "getBridgeDirectionConfig",
                 bridgeType |-> det.last.type,
                 unclaimed |-> det.last.answer # "yes",
                 sourceChainId |-> sourceChainId, targetChainId |-> targetChainId,
                 direction |-> getBridgeDirection(sourceChainId, targetChainId),
                 config |-> getBridgeDirectionConfig(det.last.type, sourceChainId,
                                                     targetChainId)]
  /\ QueryFrame

\* the estimates of a bridge type and of 'unknown' are read for the same
\* chains, direction-aware and by type
EstimatedTimes ==
  /\ \E bridgeType \in BridgeTypes \ {"unknown"},
        sourceChainId \in ProfileChains, targetChainId \in ProfileChains :
       query' = [fn |-> "getBridgeEstimatedTime",
                 bridgeType |-> bridgeType,
                 sourceChainId |-> sourceChainId, targetChainId |-> targetChainId,
                 direction |-> getBridgeDirection(sourceChainId, targetChainId),
                 ofType |-> getBridgeDirectionConfig(bridgeType, sourceChainId,
                                                     targetChainId).estimatedTimeMinutes,
                 ofUnknown |-> getBridgeDirectionConfig("unknown", sourceChainId,
                                                     targetChainId).estimatedTimeMinutes,
                 flatOfType |-> getBridgeEstimatedTime(bridgeType),
                 flatOfUnknown |-> getBridgeEstimatedTime("unknown")]
  /\ QueryFrame

NextProfile ==
  \/ DetectCall("u1")
  \/ ProbeSettles("u1")
  \/ DirectionConfigOfSucker
  \/ EstimatedTimes

SpecProfile == InitDetect /\ [][NextProfile]_vars

\* ---------------------------------------------------------------------------
\* bridgeUtils: the status a transaction takes after sent_to_remote, by
\* bridge type and, in the direction-aware version of the module, by the
\* profile of the direction
\* ---------------------------------------------------------------------------

\* getNextStateAfterSentToRemote(bridgeType): the switch of the by-type version
getNextStateAfterSentToRemote(bridgeType) ==
  CASE bridgeType = "CCIP" -> "sent_to_remote"
    [] OTHER -> "ready_to_claim"

\* bridgeHasAdditionalSteps(bridgeType)
bridgeHasAdditionalSteps(bridgeType) ==
  CASE bridgeType = "CCIP" -> TRUE
    [] bridgeType \in {"ArbitrumCanonical", "OptimismCanonical"} -> FALSE
    [] OTHER -> TRUE

\* getNextStateAfterSentToRemote(directionConfig): the direction-aware version
getNextStateAfterSentToRemoteOfConfig(directionConfig) ==
  IF directionConfig.hasAdditionalSteps THEN "sent_to_remote" ELSE "ready_to_claim"

\* bridgeDirectionHasAdditionalSteps(directionConfig)
bridgeDirectionHasAdditionalSteps(directionConfig) == directionConfig.hasAdditionalSteps

\* the next status is asked for a bridge type and for the profile of that
\* type between two chains
NextStateAfterSentToRemote ==
  /\ \E bridgeType \in BridgeTypes,
        sourceChainId \in ProfileChains, targetChainId \in ProfileChains :
       LET config == getBridgeDirectionConfig(bridgeType, sourceChainId, targetChainId)
       IN  query' = [fn |-> "getNextStateAfterSentToRemote",
                     bridgeType |-> bridgeType,
                     sourceChainId |-> sourceChainId, targetChainId |-> targetChainId,
                     next |-> getNextStateAfterSentToRemote(bridgeType),
                     hasAdditionalSteps |-> bridgeHasAdditionalSteps(bridgeType),
                     config |-> config,
                     nextOfConfig |-> getNextStateAfterSentToRemoteOfConfig(config),
                     hasAdditionalStepsOfConfig |->
                       bridgeDirectionHasAdditionalSteps(config)]
  /\ QueryFrame

NextNextState == NextStateAfterSentToRemote

SpecNextState == Init /\ [][NextNextState]_vars

\* ---------------------------------------------------------------------------
\* getClaimFunctionData: the proof of a claim as the backend sent it is
\* converted to the bytes32[32] argument of sucker.claim().  A string is a
\* sequence of characters; an element of the proof is a byte array, a string
\* or a value of another type.
\* ---------------------------------------------------------------------------

HexDigits == <<"0", "1", "2", "3", "4", "5", "6", "7", "8", "9",
               "a", "b", "c", "d", "e", "f">>

\* byte.toString(16): no leading zero
toString16(byte) ==
  IF byte < 16 THEN <<HexDigits[byte + 1]>>
  ELSE <<HexDigits[(byte \div 16) + 1], HexDigits[(byte % 16) + 1]>>

\* s.padStart(2, '0')
padStart2(s) == IF Len(s) < 2 THEN <<"0">> \o s ELSE s

\* parts.join('')
RECURSIVE join(_)
join(parts) == IF parts = <<>> THEN <<>> ELSE Head(parts) \o join(Tail(parts))

\* s.startsWith('0x')
startsWith0x(s) == Len(s) >= 2 /\ s[1] = "0" /\ s[2] = "x"

\* number of elements of the proof argument of claim()
PROOF_LENGTH == 32

ZERO_HASH == <<"0", "x">> \o [k \in 1..64 |-> "0"]

ByteArray(bytes) == [kind |-> "array", bytes |-> bytes]
HexString(chars) == [kind |-> "string", chars |-> chars]
OtherValue == [kind |-> "other"]

\* the callback of claimData.Proof.map
convertElement(byteArray) ==
  IF byteArray.kind = "array"
  THEN <<"0", "x">> \o
       join([k \in 1..Len(byteArray.bytes) |-> padStart2(toString16(byteArray.bytes[k]))])
  ELSE IF byteArray.kind = "string"
  THEN IF startsWith0x(byteArray.chars) THEN byteArray.chars
       ELSE <<"0", "x">> \o byteArray.chars
  ELSE ZERO_HASH

\* while (paddedProof.length < 32) paddedProof.push(zero hash)
RECURSIVE padded(_)
padded(paddedProof) ==
  IF Len(paddedProof) < PROOF_LENGTH THEN padded(Append(paddedProof, ZERO_HASH))
  ELSE paddedProof

\* the padded proof handed on as it is
unsliced(paddedProof) == paddedProof

\* paddedProof.slice(0, 32)
fixedProofOf(paddedProof) ==
  SubSeq(paddedProof, 1, IF Len(paddedProof) < PROOF_LENGTH THEN Len(paddedProof)
                         ELSE PROOF_LENGTH)

getClaimFunctionData(claimData) ==
  LET convertedProof == [k \in 1..Len(claimData.Proof) |->
                           convertElement(claimData.Proof[k])]
      paddedProof == padded(convertedProof)
      fixedProof == fixedProofOf(paddedProof)
  IN  [functionName |-> "claim", proof |-> fixedProof]

\* longest proof the backend sends
MaxProofLen == 34

\* 32 bytes whose values depend on n: below 16, above 15, 0 and 255 occur
Bytes32(n) == [k \in 1..32 |-> (n * 37 + k * 15 + 225) % 256]

\* 64 lower-case hex digits that depend on n
Digits64(n) == [k \in 1..64 |-> HexDigits[((n + k * 7) % 16) + 1]]

\* the digits in upper case, as a backend may print them
upperCased(chars) ==
  [k \in 1..Len(chars) |->
     CASE chars[k] = "a" -> "A" [] chars[k] = "b" -> "B" [] chars[k] = "c" -> "C"
       [] chars[k] = "d" -> "D" [] chars[k] = "e" -> "E" [] chars[k] = "f" -> "F"
       [] OTHER -> chars[k]]

\* the forms in which the n-th element of a proof arrives
ProofElement(n) ==
  CASE n % 6 = 0 -> ByteArray(Bytes32(n))
    [] n % 6 = 1 -> HexString(<<"0", "x">> \o Digits64(n))
    [] n % 6 = 2 -> HexString(Digits64(n))
    [] n % 6 = 3 -> HexString(<<"0", "x">> \o upperCased(Digits64(n)))
    [] n % 6 = 4 -> HexString(upperCased(Digits64(n)))
    [] OTHER -> OtherValue

\* proofs of 0 to max elements, starting at any of the forms
ProofInputs(max) ==
  {[k \in 1..len |-> ProofElement(first + k)] : len \in 0..max, first \in 0..5}

GetClaimFunctionData ==
  /\ \E Proof \in ProofInputs(MaxProofLen) :
       query' = [fn |-> "getClaimFunctionData",
                 Proof |-> Proof,
                 proof |-> getClaimFunctionData([Proof |-> Proof]).proof]
  /\ QueryFrame

NextClaimData == GetClaimFunctionData

SpecClaimData == Init /\ [][NextClaimData]_vars

\* ---------------------------------------------------------------------------
\* discoverAllSuckers: the worklist traversal of the registry graph.  One step
\* is one iteration of a loop, or the code up to the next chain call.
\* ---------------------------------------------------------------------------

\* number of (chain, project) combinations the chains know
MaxNodes == 3

Nodes == 1..MaxNodes

NodeChain(n) ==
  IF n % 3 = 1 THEN SourceChain ELSE IF n % 3 = 2 THEN TargetChain ELSE BaseChain

NodeProject(n) == 1 + ((n - 1) \div 3)

\* the combination a chain id and a project id name
NodeOf(chainId, projectId) ==
  CHOOSE n \in Nodes : NodeChain(n) = chainId /\ NodeProject(n) = projectId

\* `${chainId}-${projectId}`
checkKey(chainId, projectId) == toString(chainId) \o <<45>> \o toString(projectId)

\* the address of the suckers linking two combinations, as the registry of
\* combination u spells it: "0xab" on the smaller end, "0xAB" on the larger
SuckerAddress(u, v) ==
  LET lo == IF u < v THEN u ELSE v
      hi == IF u < v THEN v ELSE u
  IN  IF u = lo THEN <<48, 120, 96 + lo, 96 + hi>> ELSE <<48, 120, 64 + lo, 64 + hi>>

\* suckerPairsOf(projectId) on the chain of combination u: one JBSuckersPair
\* per link the registry lists, remoteNode being what projectId() of the
\* remote sucker answers
RECURSIVE suckerPairsOf(_, _, _)
suckerPairsOf(u, edges, v) ==
  IF v > MaxNodes THEN <<>>
  ELSE (IF <<u, v>> \in edges
          THEN << [local |-> SuckerAddress(u, v), remote |-> SuckerAddress(u, v),
                   remoteChainId |-> NodeChain(v), remoteNode |-> v] >>
          ELSE <<>>)
       \o suckerPairsOf(u, edges, v + 1)

\* the chain data of a behaviour: the links the registries list and the calls
\* that fail
ChainData(nodes) ==
  [edges : SUBSET {e \in nodes \X nodes : e[1] # e[2]},
   registryFails : SUBSET nodes,
   projectIdFails : SUBSET nodes]

\* the combination discovery starts from: initialChainId, initialProjectId
Seed == 1

\* the locals of discoverAllSuckers before its loop, given the processed pairs
runLocals(chain, seed, run, first, processedPairs) ==
  [pc |-> "loop", chain |-> chain, seed |-> seed, run |-> run, first |-> first,
   projectMappings |-> {}, suckerPairs |-> {},
   checkedCombinations |-> {}, processedPairs |-> processedPairs,
   toCheck |-> << [chainId |-> NodeChain(seed), projectId |-> NodeProject(seed)] >>,
   cur |-> [chainId |-> 0, projectId |-> 0], rawSuckerPairs |-> <<>>,
   lookups |-> <<>>, skipped |-> FALSE, pairSkipped |-> FALSE,
   pairList |-> <<>>, allSuckers |-> <<>>, bridgeInfo |-> <<>>]

\* a run whose processedPairs outlive the run before it
carriedRun(d, chain, seed, run, first) ==
  runLocals(chain, seed, run, first, IF d.pc = "done" THEN d.processedPairs ELSE {})

\* a run starts from the seed with every local new
freshRun(d, chain, seed, run, first) ==
  runLocals(chain, seed, run, first, {})

\* toCheck read at its end without removing the element
peeked(toCheck) == toCheck

\* toCheck after toCheck.pop()
popped(toCheck) == SubSeq(toCheck, 1, Len(toCheck) - 1)

\* the test of the worklist loop left out
alreadyCheckedNever(d, key) == FALSE

\* every combination counts as checked once one has been checked
alreadyCheckedAfterFirst(d, key) == d.checkedCombinations # {}

\* checkedCombinations.has(key)
alreadyChecked(d, key) == key \in d.checkedCombinations

\* the test of the pair loop left out
alreadyProcessedNever(d, pairId) == FALSE

\* processedPairs.has(pairId)
alreadyProcessed(d, pairId) == pairId \in d.processedPairs

\* the chainA sucker of each pair only
chainASuckersOf(pairList) ==
  [j \in 1..Len(pairList) |->
     [chainId |-> pairList[j].chainA.chainId, address |-> pairList[j].chainA.address,
      pairId |-> pairList[j].id, side |-> "chainA"]]

\* allSuckers of populateBridgeInfo: for each pair in insertion order its
\* chainA sucker and its chainB sucker
RECURSIVE allSuckersOf(_)
allSuckersOf(pairList) ==
  IF pairList = <<>> THEN <<>>
  ELSE LET pair == Head(pairList)
       IN  << [chainId |-> pair.chainA.chainId, address |-> pair.chainA.address,
               pairId |-> pair.id, side |-> "chainA"],
              [chainId |-> pair.chainB.chainId, address |-> pair.chainB.address,
               pairId |-> pair.id, side |-> "chainB"] >>
           \o allSuckersOf(Tail(pairList))

\* pair[sucker.side].bridgeInfo = bridgeInfo, and the loop moves to the next
\* sucker
bridgeInfoSet(d, sucker, bridgeInfo) ==
  [d EXCEPT !.bridgeInfo = mapSet(@, <<sucker.pairId, sucker.side>>, bridgeInfo),
            !.allSuckers = Tail(@),
            !.pc = "bridge"]

PopulateFrame ==
  UNCHANGED <<storeVars, now, serviceVars, procVars, cardVars, chainVars, calls, obs,
              query, hook>>

DiscFrame ==
  UNCHANGED <<storeVars, now, serviceVars, procVars, cardVars, chainVars, calls, obs, det, query, hook>>

\* discoverAllSuckers(initialChainId, initialProjectId) is called
StartDiscovery ==
  /\ disc.pc = "off"
  /\ \E chain \in ChainData(Nodes) : disc' = freshRun(disc, chain, Seed, 1, {})
  /\ DiscFrame

\* while (toCheck.length > 0): pop, skip a checked key, else issue the
\* registry lookup
PopNext ==
  /\ disc.pc = "loop"
  /\ disc.toCheck # <<>>
  /\ LET item == disc.toCheck[Len(disc.toCheck)]
         key == checkKey(item.chainId, item.projectId)
         rest == popped(disc.toCheck)
     IN  disc' =
           IF alreadyChecked(disc, key)
             THEN [disc EXCEPT !.toCheck = rest, !.skipped = TRUE]
             ELSE [disc EXCEPT !.toCheck = rest,
                               !.checkedCombinations = @ \cup {key},
                               !.cur = item,
                               !.lookups = Append(@, key),
                               !.pc = "registry"]
  /\ DiscFrame

\* getSuckerPairsForProject returns
RegistryAnswers ==
  /\ disc.pc = "registry"
  /\ LET u == NodeOf(disc.cur.chainId, disc.cur.projectId)
     IN  /\ u \notin disc.chain.registryFails
         /\ disc' = [disc EXCEPT
              !.projectMappings = @ \cup {checkKey(disc.cur.chainId, disc.cur.projectId)},
              !.rawSuckerPairs = suckerPairsOf(u, disc.chain.edges, 1),
              !.pc = "pairs"]
  /\ DiscFrame

\* getSuckerPairsForProject throws: the outer catch logs, the loop goes on
RegistryFails ==
  /\ disc.pc = "registry"
  /\ NodeOf(disc.cur.chainId, disc.cur.projectId) \in disc.chain.registryFails
  /\ disc' = [disc EXCEPT !.pc = "loop"]
  /\ DiscFrame

\* for (const rawPair of rawSuckerPairs): skip a processed pair, else ask the
\* remote sucker for its project id
NextPair ==
  /\ disc.pc = "pairs"
  /\ disc' =
       IF disc.rawSuckerPairs = <<>> THEN [disc EXCEPT !.pc = "loop"]
       ELSE LET rawPair == Head(disc.rawSuckerPairs)
                pairId == createSuckerPairId(disc.cur.chainId, rawPair.local,
                                             rawPair.remoteChainId, rawPair.remote)
            IN  IF alreadyProcessed(disc, pairId)
                  THEN [disc EXCEPT !.rawSuckerPairs = Tail(@), !.pairSkipped = TRUE]
                  ELSE [disc EXCEPT !.pc = "remote"]
  /\ DiscFrame

\* getProjectIdFromSucker returns: the pair is stored and the remote
\* combination pushed unless it has been checked
ProjectIdAnswers ==
  /\ disc.pc = "remote"
  /\ LET rawPair == Head(disc.rawSuckerPairs)
         pairId == createSuckerPairId(disc.cur.chainId, rawPair.local,
                                      rawPair.remoteChainId, rawPair.remote)
         remoteProjectId == NodeProject(rawPair.remoteNode)
         remoteKey == checkKey(rawPair.remoteChainId, remoteProjectId)
     IN  /\ rawPair.remoteNode \notin disc.chain.projectIdFails
         /\ disc' = [disc EXCEPT
              !.suckerPairs = @ \cup {pairId},
              !.pairList = IF pairId \in disc.suckerPairs THEN @
                           ELSE Append(@, [id |-> pairId,
                                   chainA |-> [chainId |-> disc.cur.chainId,
                                               address |-> rawPair.local,
                                               projectId |-> disc.cur.projectId],
                                   chainB |-> [chainId |-> rawPair.remoteChainId,
                                               address |-> rawPair.remote,
                                               projectId |-> remoteProjectId]]),
              !.processedPairs = @ \cup {pairId},
              !.toCheck = IF remoteKey \in disc.checkedCombinations THEN @
                          ELSE Append(@, [chainId |-> rawPair.remoteChainId,
                                          projectId |-> remoteProjectId]),
              !.rawSuckerPairs = Tail(@),
              !.pc = "pairs"]
  /\ DiscFrame

\* getProjectIdFromSucker throws and the failure ends the pair loop of the node
ProjectIdFailsBreak ==
  /\ disc.pc = "remote"
  /\ Head(disc.rawSuckerPairs).remoteNode \in disc.chain.projectIdFails
  /\ disc' = [disc EXCEPT !.rawSuckerPairs = <<>>, !.pc = "pairs"]
  /\ DiscFrame

\* getProjectIdFromSucker throws: the inner catch warns, the next pair follows
ProjectIdFails ==
  /\ disc.pc = "remote"
  /\ Head(disc.rawSuckerPairs).remoteNode \in disc.chain.projectIdFails
  /\ disc' = [disc EXCEPT !.rawSuckerPairs = Tail(@), !.pc = "pairs"]
  /\ DiscFrame

\* the worklist is empty: populateBridgeInfo collects two suckers per pair
WorklistEmpty ==
  /\ disc.pc = "loop"
  /\ disc.toCheck = <<>>
  /\ disc' = [disc EXCEPT !.pc = "bridge", !.allSuckers = allSuckersOf(disc.pairList)]
  /\ DiscFrame

\* populateBridgeInfo calls detectSuckerBridge for the next sucker; a cached
\* result is stored on the pair at once
DetectBridge ==
  /\ disc.pc = "bridge"
  /\ disc.allSuckers # <<>>
  /\ LET sucker == Head(disc.allSuckers)
         d == detectSuckerBridge(det, "populate", sucker.chainId, sucker.address)
     IN  /\ det' = d
         /\ disc' = IF d.call["populate"].pc = "idle"
                      THEN bridgeInfoSet(disc, sucker, d.bridgeCache[d.last.key])
                      ELSE [disc EXCEPT !.pc = "detecting"]
  /\ PopulateFrame

\* a probe of the call populateBridgeInfo awaits settles; when the call
\* returns, its result is stored on the pair.  (detectSuckerBridge catches
\* every failure itself, so the catch of populateBridgeInfo is never entered.)
BridgeProbeSettles ==
  /\ disc.pc = "detecting"
  /\ LET c == det.call["populate"]
         sucker == Head(disc.allSuckers)
     IN  \E answer \in isSucker(det.world, c.chainId, c.entries[c.i].deployer) :
           LET d == probeSettles(det, "populate", answer)
           IN  /\ det' = d
               /\ disc' = IF d.call["populate"].pc = "idle"
                            THEN bridgeInfoSet(disc, sucker, d.bridgeCache[d.last.key])
                            ELSE disc
  /\ PopulateFrame

\* return { projectMappings, suckerPairs }
ReturnResult ==
  /\ disc.pc = "bridge"
  /\ disc.allSuckers = <<>>
  /\ disc' = [disc EXCEPT !.pc = "done"]
  /\ DiscFrame

\* discoverAllSuckers is called again with the same seed, on the same chains
DiscoverAgain ==
  /\ disc.pc = "done"
  /\ disc.run = 1
  /\ disc' = freshRun(disc, disc.chain, disc.seed, 2, disc.suckerPairs)
  /\ DiscFrame

NextDiscovery ==
  \/ StartDiscovery
  \/ PopNext
  \/ RegistryAnswers
  \/ RegistryFails
  \/ NextPair
  \/ ProjectIdAnswers
  \/ ProjectIdFails
  \/ WorklistEmpty
  \/ DetectBridge
  \/ BridgeProbeSettles
  \/ ReturnResult
  \/ DiscoverAgain

SpecDiscovery == Init /\ [][NextDiscovery]_vars

\* every chain call returns or fails, and the event loop runs what follows it
SpecDiscoveryFair == SpecDiscovery /\ WF_vars(NextDiscovery)

Running == disc.pc \in {"loop", "registry", "pairs", "remote", "bridge", "done"}

\* C18: within one discoverAllSuckers run no (chainId, projectId) key has the
\* registry lookup issued for it twice, whatever links the registries list.
C18_OneLookupPerKey ==
  Running =>
    \A i \in 1..Len(disc.lookups), j \in 1..Len(disc.lookups) :
      disc.lookups[i] = disc.lookups[j] => i = j

\* a finished run on a graph with the cycle 1 -> 2 -> 1 in which a key popped
\* from the worklist had already been checked (it had been pushed twice) and
\* three lookups were issued
C18_Witness ==
  /\ disc.pc = "done"
  /\ {<<1, 2>>, <<2, 1>>} \subseteq disc.chain.edges
  /\ disc.skipped
  /\ Len(disc.lookups) = 3

Returned == disc.pc = "done" /\ disc.toCheck = <<>>

\* C19: a discoverAllSuckers run that has started always comes to return its
\* result with the worklist empty, on every registry graph and whichever
\* calls fail.
C19_DiscoveryTerminates == Running ~> Returned

\* a run that has returned on a graph with the cycle 1 -> 2 -> 1, started at
\* 1, after looking up both ends of the cycle and storing a pair
C19_Witness ==
  /\ Returned
  /\ disc.seed = 1
  /\ {<<1, 2>>, <<2, 1>>} \subseteq disc.chain.edges
  /\ Len(disc.lookups) >= 2
  /\ disc.suckerPairs # {}

NodeKey(n) == checkKey(NodeChain(n), NodeProject(n))

\* the id of the pair the registry of u lists towards v
LinkId(u, v) ==
  createSuckerPairId(NodeChain(u), SuckerAddress(u, v), NodeChain(v), SuckerAddress(u, v))

\* C21: when discoverAllSuckers returns, every checked node whose registry
\* lookup did not fail has its mapping in the result, and every raw pair of
\* such a node whose remote project-id lookup did not fail is in suckerPairs
\* with its remote node checked in turn, whatever other lookups failed.
C21_FailureSkipsOnlyItsItem ==
  Returned =>
    \A u \in Nodes :
      /\ (NodeKey(u) \in disc.checkedCombinations /\ u \notin disc.chain.registryFails)
           => NodeKey(u) \in disc.projectMappings
      /\ NodeKey(u) \in disc.projectMappings =>
           \A v \in Nodes :
             (<<u, v>> \in disc.chain.edges /\ v \notin disc.chain.projectIdFails)
               => /\ LinkId(u, v) \in disc.suckerPairs
                  /\ NodeKey(v) \in disc.checkedCombinations

\* a returned run in which the registry lookup of a checked node failed, the
\* project-id lookup of one raw pair of a node failed, and a later raw pair of
\* the same node is in the result
C21_Witness ==
  /\ Returned
  /\ \E n \in Nodes : NodeKey(n) \in disc.checkedCombinations \ disc.projectMappings
  /\ \E u \in Nodes, v \in Nodes, w \in Nodes :
       /\ v < w
       /\ {<<u, v>>, <<u, w>>} \subseteq disc.chain.edges
       /\ NodeKey(u) \in disc.projectMappings
       /\ v \in disc.chain.projectIdFails
       /\ LinkId(u, v) \notin disc.suckerPairs
       /\ LinkId(u, w) \in disc.suckerPairs

\* C23: a detectSuckerBridge call that misses the cache probes the deployers
\* of DEPLOYER_TO_BRIDGE_TYPE one after the other from the first, goes on
\* only after an answer other than true, returns the type mapped to the
\* deployer that answered true, and returns 'unknown' only when the last
\* deployer has not answered true.
C23_FirstClaimingDeployerWins ==
  LET l == det.last
  IN  /\ l.op = "start" =>
           /\ det.call[l.caller].i = 1
           /\ det.call[l.caller].entries = det.mappings
      /\ l.op = "probe" =>
           /\ l.answer # "yes"
           /\ l.i < Len(l.entries)
           /\ det.call[l.caller].i = l.i + 1
      /\ (l.op = "return" /\ l.i > 0) =>
           IF l.answer = "yes" THEN l.type = l.entries[l.i].type
           ELSE l.i = Len(l.entries) /\ l.type = "unknown"

\* a call returns CCIP after its fourth probe, the first to answer true
C23_Witness ==
  /\ det.last.op = "return"
  /\ det.last.i = 4
  /\ det.last.answer = "yes"
  /\ det.last.type = "CCIP"
  /\ det.last.entries = DEPLOYER_TO_BRIDGE_TYPE

\* C24: after a probe that throws the next deployer is probed, a deployer
\* answering true after an earlier throw decides the type, and every call
\* returns a classification: 'unknown' when the chain is unsupported or the
\* last probe throws.
C24_ProbeFailureSwallowed ==
  LET l == det.last
  IN  /\ (l.op \in {"probe", "return"} /\ l.answer = "fail" /\ l.i < Len(l.entries)) =>
           /\ l.op = "probe"
           /\ det.call[l.caller].pc = "probe"
           /\ det.call[l.caller].i = l.i + 1
      /\ l.op = "return" => l.type \in BridgeTypes
      /\ (l.op = "return" /\ l.answer = "yes" /\ l.failed) => l.type = l.entries[l.i].type
      /\ (l.op = "return" /\ l.answer = "fail") => l.type = "unknown"
      /\ (l.op = "return" /\ ~l.hit /\ l.i = 0) => l.type = "unknown"

\* a call returns the type of a deployer that answered true after an earlier
\* probe of the call had thrown
C24_Witness ==
  /\ det.last.op = "return"
  /\ det.last.failed
  /\ det.last.answer = "yes"
  /\ det.last.i >= 2
  /\ det.last.type \in {"OptimismCanonical", "CCIP"}

\* the entries of a sequence
Range(f) == {f[j] : j \in DOMAIN f}

\* C27: a detectSuckerBridge call made after a call for the same chain and
\* the same address up to letter case has returned, with no clearCache or
\* updateDeployerMappings since, issues no probe and returns the
\* classification that was returned before.
C27_CachedUntilCleared ==
  LET l == det.last
  IN  (l.op \in {"start", "probe", "return"} /\ l.after # {}) =>
        /\ l.op = "return"
        /\ l.hit
        /\ l.after = {l.type}

\* C28: the first detectSuckerBridge call made after clearCache or
\* updateDeployerMappings for a sucker that was cached before does not
\* return a cached result: it probes the deployers of the mappings as they
\* are after the update.
C28_RedetectAfterClear ==
  LET l == det.last
  IN  /\ (l.op \in {"start", "return"} /\ l.next) => ~l.hit
      /\ (l.op = "start" /\ l.next) =>
           /\ l.entries = det.mappings
           /\ Range(det.updated) \subseteq Range(l.entries)

\* the two ends of a stored pair
Sides == {"chainA", "chainB"}

\* no probe of a deployer of the mappings can answer true on the chain
NoDeployerClaims(chainId) ==
  \A j \in 1..Len(det.mappings) :
    "yes" \notin isSucker(det.world, chainId, det.mappings[j].deployer)

\* C22: when discoverAllSuckers returns, each end of every pair of the result
\* carries the bridge info detected for its chain and address, of one of the
\* four bridge types, and the 'unknown' type when no deployer probe on its
\* chain answers true.
C22_EveryEndpointClassified ==
  Returned =>
    /\ {disc.pairList[j].id : j \in 1..Len(disc.pairList)} = disc.suckerPairs
    /\ \A j \in 1..Len(disc.pairList), side \in Sides :
         LET pair == disc.pairList[j]
             end == pair[side]
         IN  /\ <<pair.id, side>> \in DOMAIN disc.bridgeInfo
             /\ LET info == disc.bridgeInfo[<<pair.id, side>>]
                IN  /\ info.type \in BridgeTypes
                    /\ info.chainId = end.chainId
                    /\ info.suckerAddress = lowerCased(end.address)
                    /\ NoDeployerClaims(end.chainId) => info.type = "unknown"

\* a first run has returned a pair with one end classified by a deployer and
\* the other end 'unknown' after all its probes threw
C22_Witness ==
  /\ Returned
  /\ disc.run = 1
  /\ \E j \in 1..Len(disc.pairList) :
       LET pair == disc.pairList[j]
       IN  /\ disc.bridgeInfo[<<pair.id, "chainA">>].type = "OptimismCanonical"
           /\ disc.bridgeInfo[<<pair.id, "chainB">>].type = "unknown"
           /\ pair.chainB.chainId = BaseChain

\* C25: a sucker classified with no deployer answering true is of type
\* 'unknown', and the profile read for 'unknown' has requiresPayment and
\* hasAdditionalSteps true whatever the source and target chain.
C25_UnknownIsConservative ==
  query.fn = "getBridgeDirectionConfig" =>
    /\ query.unclaimed => query.bridgeType = "unknown"
    /\ query.bridgeType = "unknown" =>
         /\ query.config.requiresPayment
         /\ query.config.hasAdditionalSteps

\* the profile of an unclaimed sucker is read for an L1 to L2 transfer, the
\* direction in which the canonical bridges need neither payment nor steps
C25_Witness ==
  /\ query.fn = "getBridgeDirectionConfig"
  /\ query.unclaimed
  /\ query.direction = "l1ToL2"
  /\ query.sourceChainId = 1
  /\ query.targetChainId = 10
  /\ query.config = DirectionConfig(TRUE, TRUE, 30)

\* C26: the estimate of 'unknown' is at least the estimate of every known
\* bridge type, for the direction of any source and target chain and for
\* the estimate by type.
C26_UnknownEstimateIsLargest ==
  query.fn = "getBridgeEstimatedTime" =>
    /\ query.ofUnknown >= query.ofType
    /\ query.flatOfUnknown >= query.flatOfType

\* the hex digits in lower case
LowerHex == {HexDigits[k] : k \in 1..16}

\* C29: the proof getClaimFunctionData produces has exactly 32 elements: of
\* a proof of n < 32 elements the n converted elements in their order and
\* then 32 - n zero hashes, of a proof of n >= 32 elements the first 32
\* converted elements in their order.
C29_ProofHas32Elements ==
  query.fn = "getClaimFunctionData" =>
    /\ Len(query.proof) = 32
    /\ \A k \in 1..32 :
         query.proof[k] = IF k <= Len(query.Proof)
                          THEN convertElement(query.Proof[k])
                          ELSE ZERO_HASH

\* a proof of 34 elements was cut after the 32nd, and neighbouring elements
\* differ, so that their order shows
C29_Witness ==
  /\ query.fn = "getClaimFunctionData"
  /\ Len(query.Proof) = 34
  /\ query.proof[32] = convertElement(query.Proof[32])
  /\ query.proof[32] # convertElement(query.Proof[33])
  /\ query.proof[1] # query.proof[2]

\* an element that stands for 32 bytes: 32 bytes, or 64 hex digits in either
\* case with or without the 0x prefix
Is32Bytes(element) ==
  \/ element.kind = "array" /\ Len(element.bytes) = 32
  \/ /\ element.kind = "string"
     /\ LET digits == IF startsWith0x(element.chars)
                      THEN SubSeq(element.chars, 3, Len(element.chars))
                      ELSE element.chars
        IN  /\ Len(digits) = 64
            /\ \A k \in 1..64 : digits[k] \in LowerHex \cup {"A", "B", "C", "D", "E", "F"}

\* C30: every element of the proof that arrives as 32 bytes or as a hex
\* string of 32 bytes, with or without 0x and in either case, is emitted as
\* 0x followed by 64 lower-case hex digits.
C30_ElementsLowercaseHex ==
  query.fn = "getClaimFunctionData" =>
    \A k \in 1..Len(query.proof) :
      (k <= Len(query.Proof) /\ Is32Bytes(query.Proof[k])) =>
        /\ Len(query.proof[k]) = 66
        /\ startsWith0x(query.proof[k])
        /\ \A c \in 3..66 : query.proof[k][c] \in LowerHex

\* C40: removeDuplicateTransactions applied to the list a first call left
\* removes nothing, saves nothing and dispatches no change notification, so
\* the reload a notification causes ends the chain of notifications.
C40_DedupIdempotent ==
  (obs.op = "removeDuplicateTransactions" /\ calls >= 2) =>
    /\ ledger = obs.input
    /\ ~obs.emitted

\* the second call ran on a list the first call had shortened
C40_Witness ==
  /\ obs.op = "removeDuplicateTransactions"
  /\ calls = 2
  /\ ledger = obs.input
  /\ ledger # <<>>
  /\ \E L \in DedupInputs(MaxLen) :
       Len(L) > Len(ledger) /\ removeDuplicateTransactions(L) = ledger

\* C36: getNextStateAfterSentToRemote answers sent_to_remote exactly when
\* the bridge has additional steps and ready_to_claim otherwise, for every
\* bridge type as bridgeHasAdditionalSteps tells it and for every direction
\* profile; the answer is never a status before sent_to_remote.
C36_NextStateFollowsAdditionalSteps ==
  query.fn = "getNextStateAfterSentToRemote" =>
    /\ query.next = (IF query.hasAdditionalSteps THEN "sent_to_remote"
                     ELSE "ready_to_claim")
    /\ query.nextOfConfig = (IF query.hasAdditionalStepsOfConfig THEN "sent_to_remote"
                             ELSE "ready_to_claim")
    /\ Rank(query.next) >= Rank("sent_to_remote")
    /\ Rank(query.nextOfConfig) >= Rank("sent_to_remote")

\* C39: when clearCache or updateDeployerMappings has run while a
\* detectSuckerBridge call was awaiting a probe, the result of that call is
\* not left in the cache, and no later call returns it from the cache.
C39_InFlightResultNotCached ==
  /\ \A key \in DOMAIN det.bridgeCache : key \notin det.crossedKeys
  /\ (det.last.op = "return" /\ det.last.hit) => det.last.key \notin det.crossedKeys

\* the pair id of the raw pair the pair loop is at
HeadPairId(d) ==
  createSuckerPairId(d.cur.chainId, Head(d.rawSuckerPairs).local,
                     Head(d.rawSuckerPairs).remoteChainId, Head(d.rawSuckerPairs).remote)

\* C35: within a run the project id of a remote sucker is asked only for a
\* raw pair whose pair id has no SuckerPair yet; a pair that has one is not
\* asked about again, also when the registry of its other end lists it.
C35_NoLookupForStoredPair ==
  [][(disc.pc = "pairs" /\ disc'.pc = "remote") =>
       HeadPairId(disc') \notin disc.suckerPairs]_vars

\* a first run that has returned on a graph with the links 1 -> 2 and
\* 2 -> 1, after storing their pair and skipping it at the other end
C35_Witness ==
  /\ disc.pc = "done"
  /\ disc.run = 1
  /\ disc.pairSkipped
  /\ {<<1, 2>>, <<2, 1>>} \subseteq disc.chain.edges
  /\ LinkId(1, 2) \in disc.suckerPairs
  /\ LinkId(2, 1) = LinkId(1, 2)

\* the combinations reached from the nodes of R by following links
RECURSIVE Reach(_, _)
Reach(R, edges) ==
  LET R1 == R \cup {e[2] : e \in {x \in edges : x[1] \in R}}
  IN  IF R1 = R THEN R ELSE Reach(R1, edges)

\* C38: a run in which no chain call fails returns projectMappings with
\* the keys of the combinations reachable from the seed, and suckerPairs with
\* the pair ids of the raw pairs those combinations list; in every run the id
\* of a stored pair is the pair id of its two ends, from either side, and the
\* key of its chainA end is in projectMappings.
C38_DiscoveryComplete ==
  disc.pc = "done" =>
    /\ (disc.chain.registryFails = {} /\ disc.chain.projectIdFails = {}) =>
         LET R == Reach({disc.seed}, disc.chain.edges)
         IN  /\ disc.projectMappings = {NodeKey(n) : n \in R}
             /\ disc.suckerPairs = {LinkId(e[1], e[2]) : e \in {x \in disc.chain.edges : x[1] \in R}}
    /\ {disc.pairList[j].id : j \in 1..Len(disc.pairList)} = disc.suckerPairs
    /\ \A j \in 1..Len(disc.pairList) :
         LET pair == disc.pairList[j]
         IN  /\ pair.id = createSuckerPairId(pair.chainA.chainId, pair.chainA.address,
                                             pair.chainB.chainId, pair.chainB.address)
             /\ pair.id = createSuckerPairId(pair.chainB.chainId, pair.chainB.address,
                                             pair.chainA.chainId, pair.chainA.address)
             /\ checkKey(pair.chainA.chainId, pair.chainA.projectId) \in disc.projectMappings

\* a run without failures that has returned the three combinations and two
\* pairs of a graph with a cycle
C38_Witness ==
  /\ disc.pc = "done"
  /\ disc.chain.registryFails = {}
  /\ disc.chain.projectIdFails = {}
  /\ {<<1, 2>>, <<2, 1>>, <<2, 3>>} \subseteq disc.chain.edges
  /\ Cardinality(disc.projectMappings) = 3
  /\ Cardinality(disc.suckerPairs) >= 2

\* a step of the reconciler: a call starts, or a running call or card check
\* goes on
ReconcilerStep ==
  \/ calls' # calls
  \/ pc' # pc
  \/ claimGroups' # claimGroups
  \/ claimsLeft' # claimsLeft
  \/ batchGroups' # batchGroups
  \/ cardPc' # cardPc

\* C34: a reconciler step that materializes no claim leaves the ledger as it
\* was except for status, claimProof and claimLeaf: a record that changes
\* either takes the proof and the leaf of a claim of the response with its
\* leaf index, together with the status ready_to_claim, or takes the status
\* sent_to_remote in the on-chain pass that evaluated it, its proof and leaf
\* staying; no record is added, removed or moved.
C34_OnlyStatusAndProofWritten ==
  [][(ReconcilerStep /\ obs'.created = NoTx) =>
       /\ Len(ledger') = Len(ledger)
       /\ \A i \in DOMAIN ledger :
            LET a == ledger[i]
                b == ledger'[i]
            IN  /\ b = [a EXCEPT !.status = b.status, !.claimProof = b.claimProof,
                                 !.claimLeaf = b.claimLeaf]
                /\ \/ b = a
                   \/ /\ b.status = "ready_to_claim"
                      /\ \E c \in obs'.claims :
                           /\ c.Leaf.Index = a.index
                           /\ b.claimProof = c.Proof
                           /\ b.claimLeaf = c.Leaf
                   \/ /\ b.status = "sent_to_remote"
                      /\ b.claimProof = a.claimProof
                      /\ b.claimLeaf = a.claimLeaf
                      /\ \E e \in obs'.evaluated : e.id = a.id]_vars

\* two stored transfers, one matched by a claim of the last response and now
\* ready_to_claim, the other still as it was stored
C34_Witness ==
  /\ Len(ledger) = 2
  /\ obs.claims # {}
  /\ obs.created = NoTx
  /\ \E i \in DOMAIN ledger : \E j \in DOMAIN ledger :
       /\ ledger[i].status = "ready_to_claim"
       /\ ledger[i].transactionHash # ""
       /\ ledger[i].claimProof # NullProof
       /\ ledger[j].status = "waiting_to_send"
       /\ ledger[j].claimProof = NullProof

CardIntervalMs == 15000  \* setInterval(checkTransactionState, 15000)
HookTickMs == 15000      \* one clock advance of the hook specification, in ms
MaxHookTicks == 1        \* clock advances of the hook specification

HookToken == "0xt1"

HookStep(op, live, started, since, cleared) ==
  [op |-> op, live |-> live, started |-> started, since |-> since, overlap |-> FALSE,
   cleared |-> cleared]

HookIdle(op) ==
  /\ obs' = Observe(op, Store0(ledger))
  /\ UNCHANGED <<storeVars, now, serviceVars, procVars, cardVars, chainVars, calls,
                 disc, det, query>>

\* a cleanup that clears the interval and removes the listener but leaves
\* the pending storage-change timeout alone
monitorCleanupKeepsTimeout(m) == [m EXCEPT !.interval = FALSE, !.listener = FALSE]

\* the cleanups of the two effects of useBridgeStateMonitor: clearInterval of
\* intervalRef, removeEventListener, clearTimeout(timeoutId)
monitorCleanup(m) ==
  [m EXCEPT !.interval = FALSE, !.listener = FALSE, !.timeout = FALSE]

\* the cleanup of the effect of useBridgeTransactionState: clearInterval
cardCleanup(c) == [c EXCEPT !.interval = FALSE]

Live(before, after) ==
  {t \in {"interval", "timeout"} : before[t] /\ ~after[t]}

\* the list is mounted, or enabled turns true: the interval effect runs
\* checkStates and arms the timer, the storage effect registers the listener
MonitorMount ==
  /\ ~hook.monitor.mounted
  /\ \E p \in Procs :
       StartSweepBy(p, [hook EXCEPT !.monitor = [@ EXCEPT !.mounted = TRUE,
                                                          !.interval = TRUE,
                                                          !.listener = TRUE],
                                    !.last = HookStep("monitorMount", TRUE, TRUE, -1, {})],
                    calls + 1)

\* the interval timer fires: checkStates
MonitorInterval ==
  /\ hook.monitor.interval
  /\ \E p \in Procs :
       StartSweepBy(p, [hook EXCEPT !.last = HookStep("interval", hook.monitor.mounted,
                                                      TRUE, -1, {})],
                    calls + 1)

\* another tab stores a transfer: the storage event reaches the listener,
\* which replaces the pending timeout by a new one
StorageChange(token) ==
  StoreTransferBy(token,
    IF hook.monitor.listener
    THEN [hook EXCEPT !.monitor.timeout = TRUE,
                      !.last = HookStep("storage", hook.monitor.mounted, FALSE, -1, {})]
    ELSE hook)

\* the storage-change timeout fires: checkStates
MonitorTimeout ==
  /\ hook.monitor.timeout
  /\ \E p \in Procs :
       StartSweepBy(p, [hook EXCEPT !.monitor.timeout = FALSE,
                                    !.last = HookStep("timeout", hook.monitor.mounted,
                                                      TRUE, -1, {})],
                    calls + 1)

\* the list is unmounted, or enabled turns false: the cleanups run and the
\* effects do not run again
MonitorShutdown ==
  /\ hook.monitor.mounted
  /\ LET m == [monitorCleanup(hook.monitor) EXCEPT !.mounted = FALSE]
     IN hook' = [hook EXCEPT !.monitor = m,
                             !.last = HookStep("shutdown", FALSE, FALSE, -1,
                                               Live(hook.monitor, m))]
  /\ HookIdle("shutdown")

CardEligible(id) ==
  \E i \in DOMAIN ledger :
    /\ ledger[i].id = id
    /\ FindById(ledger, id) = i
    /\ ledger[i].status \in {"confirmed", "waiting_to_send"}
    /\ ledger[i].index # ""

\* one call of checkTransactionState by the callback of the hook state h,
\* made by op.  The callback returns at once when the isChecking of its
\* closure is true; a check that awaits no network call sets isChecking and
\* resets it before the next render
CardCheck(c, h, op) ==
  LET since == IF hook.card.started < 0 THEN -1 ELSE now - hook.card.started
      skipped == [h EXCEPT !.last = HookStep(op, h.card.mounted, FALSE, since, {})]
      started(flying) ==
        [h EXCEPT !.card.isChecking = flying, !.card.started = now,
                  !.last = [HookStep(op, h.card.mounted, TRUE, since, {})
                              EXCEPT !.overlap = (cardPc[c] # "idle")]]
  IN IF h.card.closure
     THEN hook' = skipped /\ HookIdle(op)
     ELSE \/ StartCardBy(c, started(cardPc'[c] # "idle"), {h.card.transactionId})
          \/ /\ ~CardEligible(h.card.transactionId)
             /\ hook' = started(FALSE)
             /\ HookIdle(op)

\* a card is mounted for a stored transaction: the effect runs the check and
\* arms the 15 s timer
CardMount(c) ==
  /\ ~hook.card.mounted
  /\ \E i \in DOMAIN ledger :
       CardCheck(c, [hook EXCEPT !.card = [mounted |-> TRUE,
                                           transactionId |-> ledger[i].id,
                                           isChecking |-> FALSE, closure |-> FALSE,
                                           interval |-> TRUE, armedAt |-> now,
                                           started |-> -1]],
                 "mount")

\* the card renders after isChecking has changed: checkTransactionState has
\* isChecking among its dependencies and the effect has checkTransactionState
\* among its own, so the effect runs again: cleanup, check, new timer
CardRender(c) ==
  /\ hook.card.mounted
  /\ hook.card.closure # hook.card.isChecking
  /\ CardCheck(c, [hook EXCEPT !.card.closure = hook.card.isChecking,
                               !.card.interval = TRUE,
                               !.card.armedAt = now],
               "effect")

\* the 15 s timer of the card fires; a render that is pending commits before
\* the timer is due
CardTimer(c) ==
  /\ hook.card.interval
  /\ hook.card.mounted => hook.card.closure = hook.card.isChecking
  /\ now - hook.card.armedAt >= CardIntervalMs
  /\ CardCheck(c, [hook EXCEPT !.card.armedAt = now], "timer")

CardSettled ==
  [hook EXCEPT !.card.isChecking = FALSE,
               !.last = HookStep("settled", hook.card.mounted, FALSE, -1, {})]

\* the outbox read of the check returns; finally: setIsChecking(false)
CardReturns(c) == CardResponseBy(c, CardSettled)

\* the outbox read of the check throws; finally: setIsChecking(false)
CardThrows(c) == CardFailBy(c, CardSettled)

\* the card is unmounted: the cleanup clears the timer
CardUnmount(c) ==
  /\ hook.card.mounted
  /\ LET k == [cardCleanup(hook.card) EXCEPT !.mounted = FALSE]
     IN hook' = [hook EXCEPT !.card = k,
                             !.last = HookStep("cardUnmount", FALSE, FALSE, -1,
                                               IF hook.card.interval /\ ~k.interval
                                               THEN {"card"} ELSE {})]
  /\ HookIdle("cardUnmount")

TickHook ==
  /\ now < StartTime + MaxHookTicks * HookTickMs
  /\ now' = now + HookTickMs
  /\ obs' = Observe("tick", Store0(ledger))
  /\ UNCHANGED <<storeVars, serviceVars, procVars, cardVars, chainVars, calls, disc, det, query, hook>>

NextHook ==
  \/ MonitorMount
  \/ MonitorInterval
  \/ StorageChange(HookToken)
  \/ MonitorTimeout
  \/ MonitorShutdown
  \/ \E c \in Cards : CardMount(c)
  \/ \E c \in Cards : CardRender(c)
  \/ \E c \in Cards : CardTimer(c)
  \/ \E c \in Cards : CardReturns(c)
  \/ \E c \in Cards : CardThrows(c)
  \/ \E c \in Cards : CardUnmount(c)
  \/ \E p \in Procs : ClaimsResponse(p)
  \/ \E p \in Procs : ClaimsFail(p)
  \/ \E p \in Procs : ProjectFound(p)
  \/ \E p \in Procs : ProjectMissing(p)
  \/ \E p \in Procs : OutboxResponse(p)
  \/ \E p \in Procs : OutboxFail(p)
  \/ StoreTransfer(HookToken)
  \/ ToRemote(HookToken)
  \/ TickHook

SpecHook == Init /\ [][NextHook]_vars

\* C31: a timer of a hook runs its check only while the hook is mounted and
\* enabled: after the list is unmounted or disabled neither the interval
\* timer nor a pending storage-change timeout starts a sweep, and after a
\* card is unmounted its 15 s timer starts no check.
C31_NoTimerAfterShutdown ==
  hook.last.op \in {"interval", "timeout", "timer"} => hook.last.live

\* the list has just been shut down with its interval armed and a
\* storage-change timeout pending, both cleared, after a card that had run a
\* check was unmounted and its timer cleared
C31_Witness ==
  /\ hook.last.op = "shutdown"
  /\ hook.last.cleared = {"interval", "timeout"}
  /\ ~hook.monitor.interval /\ ~hook.monitor.timeout /\ ~hook.monitor.listener
  /\ ~hook.card.mounted /\ ~hook.card.interval
  /\ hook.card.started >= 0

\* C33: while a card is mounted a check of its transaction starts only when
\* the card is mounted and when its 15 s timer fires, so a check started by
\* the timer comes at least 15 s after the check before it, none is started
\* by the completion of the check before it, and none starts while the check
\* before it is in flight.
C33_ChecksOnlyOnMountOrTimer ==
  (hook.last.started /\ hook.last.op \in {"mount", "effect", "timer"}) =>
    /\ hook.last.op \in {"mount", "timer"}
    /\ ~hook.last.overlap
    /\ hook.last.op = "timer" =>
         (hook.last.since < 0 \/ hook.last.since >= CardIntervalMs)

(***************************************************************************)
(* Progress of the reconciler.  One transfer is stored; sweeps start again  *)
(* and again (the interval timer), every claims request, project lookup and *)
(* outbox read returns successfully, and the claims backend answers every   *)
(* request with the claims of all leaves sent to the remote chain.  The     *)
(* clock runs on for ever: once now has reached MaxTime a clock advance is  *)
(* expressed by ageing the instants the service compares with now.          *)
(***************************************************************************)
Aged(t) == IF t > TickMs THEN t - TickMs ELSE 0

TickLive ==
  /\ IF now < MaxTime
     THEN /\ now' = now + TickMs
          /\ UNCHANGED serviceVars
     ELSE /\ now' = now
          /\ lastBackendCheck' = Aged(lastBackendCheck)
          /\ outboxCache' = [k \in DOMAIN outboxCache |->
                               [outboxCache[k] EXCEPT !.timestamp = Aged(@)]]
  /\ obs' = Observe("tick", Store0(ledger))
  /\ UNCHANGED <<storeVars, procVars, cardVars, chainVars, calls, disc, det, query, hook>>

\* the transfer of the progress specification is stored
LiveStore ==
  /\ NumStored = 0
  /\ StoreTransfer(HookToken)

\* checkStates on the interval timer, as often as the timer fires
LiveSweep(p) == StartSweepBy(p, hook, calls)

\* the claims of all leaves of the token sent to the remote chain
SentClaims(request) ==
  ClaimsOf(request, SetToSeq(0 .. (chainSent[request.token] - 1)))

\* the backend answers with the claim of every sent leaf; each of them
\* matches the stored transfer, so no project lookup follows
LiveClaims(p) ==
  /\ pc[p] = "claims"
  /\ ClaimsResponseWith(p, SentClaims(Head(claimGroups[p]).request))

NextLive ==
  \/ LiveStore
  \/ ToRemote(HookToken)
  \/ \E p \in Procs : LiveSweep(p)
  \/ \E p \in Procs : LiveClaims(p)
  \/ \E p \in Procs : OutboxResponse(p)
  \/ TickLive

\* the timer keeps firing, every call in flight returns, the clock advances
FairLive ==
  /\ SF_vars(\E p \in Procs : LiveSweep(p))
  /\ \A p \in Procs : WF_vars(LiveClaims(p))
  /\ \A p \in Procs : WF_vars(OutboxResponse(p))
  /\ WF_vars(TickLive)

SpecLive == Init /\ [][NextLive]_vars /\ FairLive

HasStatus(status) == \E i \in DOMAIN ledger : ledger[i].status = status

\* C32: with sweeps that keep starting, calls that return and a backend
\* that returns the claim of every sent leaf, a transaction that is
\* sent_to_remote becomes ready_to_claim: it does not stay sent_to_remote
\* for ever.
C32_SentBecomesReady == HasStatus("sent_to_remote") ~> HasStatus("ready_to_claim")

====
